---- MODULE Spec2Model ----
(***************************************************************************)
(* A model of the Fontshow inventory pipeline:                             *)
(*   - font_cache_key and fonttools_extract_all (src/dump_fonts.py): the   *)
(*     per-face JSON cache in front of the fontTools extractor;            *)
(*   - _fonttools_extract_from_tt (src/dump_fonts.py): the per-field       *)
(*     extraction of one face;                                             *)
(*   - infer_scripts, infer_languages and parse_inventory                  *)
(*     (src/fontshow/parse_font_inventory.py): the inference pass.         *)
(*                                                                         *)
(* Python values are modelled as follows.  A str is a TLA+ string, a list  *)
(* is a sequence, a dict with string keys is a function whose domain is    *)
(* the set of its keys (a record), a set is a set.  None is the record     *)
(* PyNone and an int that may be None is wrapped by PyInt, so that the two *)
(* can be compared.                                                        *)
(***************************************************************************)
EXTENDS Integers, Sequences, FiniteSets, TLC

VARIABLES
    \* --- inference of one coverage block (infer_scripts / infer_languages)
    coverage,      \* the coverage block given to infer_scripts
    inferred,      \* level -> what infer_scripts returned at that level
    \* --- font_cache_key on two files
    keyIn,         \* the two (path, stat, ttc_index) inputs
    keyOut,        \* the two keys computed
    \* --- _fonttools_extract_from_tt on one face
    tt,            \* the open face
    ttArgs,        \* container and ttc_index handed to the extractor
    block,         \* the block returned
    \* --- the enrichment pass (parse_inventory)
    data,          \* the inventory document
    runs,          \* the levels parse_inventory has been run with, in order
    \* --- the face cache (fonttools_extract_all)
    path,          \* the font file's path
    file,          \* the file behind the path: stat and content
    cache,         \* cache_dir: key -> text of <key>.json
    cacheStat,     \* key -> the file's stat when <key>.json was written
    call,          \* the last fonttools_extract_all call and what it did
    fonttools,     \* FONTTOOLS_AVAILABLE
    steps,         \* operations performed so far
    \* --- determinism of the inference (infer_scripts / infer_languages)
    scriptLists,   \* the two script lists given to infer_languages
    languageLists, \* what infer_languages returned for each
    blockItems,    \* unicode_blocks of two coverage blocks, in insertion order
    scriptLevel,   \* the level infer_scripts was called with
    scriptsOut,    \* what infer_scripts returned for each
    \* --- the validator (validate_inventory)
    inventory,     \* the document given to validate_inventory
    validation,    \* what validate_inventory did: raised, the count returned, the lines printed
    \* --- container detection (detect_font_container)
    probed,        \* the path and file given to detect_font_container
    detected,      \* what detect_font_container returned
    \* --- the descriptor build (build_font_descriptor)
    descArgs,      \* font_path, the file behind it, fonttools and fontconfig given to build_font_descriptor
    descResult,    \* what build_font_descriptor returned or raised
    \* --- the dump run (main of dump_fonts)
    fontFiles,     \* the files get_installed_font_files returned, in order, each with the file behind it
    dumpCache,     \* cache_dir of the dump runs: key -> text, and the stat under which it was written
    dumpRun,       \* the dump runs so far: whether main ended by an exception, inventory[fonts], the entries per file
    \* --- the FontConfig enrichment (fc_query_extract)
    fcOutput,      \* the lines fc-query printed for the file
    fcResult,      \* what fc_query_extract returned
    \* --- the pipeline from a face to its inference
    pipeDesc,      \* what build_font_descriptor returned for the extracted block
    pipeParsed,    \* what parse_inventory did with the inventory of that descriptor
    \* --- the capped coverage (extract_unicode_coverage and the unicode_blocks step)
    covArgs,       \* the face and the limit of one coverage computation
    covResult,     \* the summary and the code point set it produced
    \* --- two dump processes on one cache directory
    raceArgs,      \* the file two dump processes extract and their use_cache flags
    raceEntry,     \* the cache file of that face in the shared cache directory
    raceProc,      \* where each process is and what it holds
    \* --- the inventory before enrichment
    asRead         \* the inventory as it was read, before any parse_inventory run

inferVars == <<coverage, inferred>>
keyVars   == <<keyIn, keyOut>>
faceVars  == <<tt, ttArgs, block>>
parseVars == <<data, runs>>
cacheVars == <<path, file, cache, cacheStat, call, fonttools, steps>>
langVars  == <<scriptLists, languageLists, blockItems, scriptLevel, scriptsOut>>
validateVars == <<inventory, validation>>
containerVars == <<probed, detected>>
descVars == <<descArgs, descResult>>
dumpVars == <<fontFiles, dumpCache, dumpRun>>
fcVars == <<fcOutput, fcResult>>
pipeVars == <<pipeDesc, pipeParsed>>
coverVars == <<covArgs, covResult>>
raceVars == <<raceArgs, raceEntry, raceProc>>
loadVars == <<asRead>>
vars      == <<inferVars, keyVars, faceVars, parseVars, cacheVars,
               langVars,
               validateVars,
               containerVars,
               descVars,
               dumpVars,
               fcVars,
               pipeVars,
               coverVars,
               raceVars,
               loadVars>>

(***************************************************************************)
(* Python values                                                           *)
(***************************************************************************)
PyNone == [t |-> "None"]
PyInt(n) == [t |-> "int", v |-> n]
IsInt(x) == x.t = "int"
PyStr(text) == [t |-> "str", v |-> text]

\* str.startswith
StartsWith(s, prefix) ==
    /\ Len(s) >= Len(prefix)
    /\ SubSeq(s, 1, Len(prefix)) = prefix

\* The empty dict.
EmptyDict == [k \in {} |-> 0]

\* d[k] = v on a dict
Put(d, k, v) == [x \in DOMAIN d \cup {k} |-> IF x = k THEN v ELSE d[x]]

\* d.get(k, default)
Get(d, k, default) == IF k \in DOMAIN d THEN d[k] ELSE default

\* d.setdefault(k, v), as the dict it leaves
Setdefault(d, k, v) == IF k \in DOMAIN d THEN d ELSE Put(d, k, v)

\* sum(d.values()) of a dict of ints
RECURSIVE SumValues(_)
SumValues(d) ==
    IF DOMAIN d = {} THEN 0
    ELSE LET k == CHOOSE x \in DOMAIN d : TRUE
         IN  d[k] + SumValues([x \in DOMAIN d \ {k} |-> d[x]])

\* set(list)
ToSet(seq) == {seq[i] : i \in 1..Len(seq)}

(***************************************************************************)
(* infer_scripts                                                           *)
(***************************************************************************)
Levels == {"conservative", "medium", "aggressive"}

\* The script identifiers infer_scripts can produce, in the order sorted()
\* puts them (all lowercase ASCII).
ScriptOrder ==
    <<"arabic", "cyrillic", "devanagari", "greek", "han", "hebrew",
      "japanese", "korean", "latin", "unknown">>

\* sorted(set) of script identifiers
SortedScripts(S) == SelectSeq(ScriptOrder, LAMBDA s : s \in S)

\* significant(count): count / total >= 0.10 is count * 10 >= total and
\* count / total >= 0.05 is count * 20 >= total (total > 0; the float
\* quotient of two ints below 2^53 is on the same side of the literal as the
\* exact quotient).
significant(count, total, lvl) ==
    IF lvl = "conservative" THEN count >= 50 \/ count * 10 >= total
    ELSE IF lvl = "aggressive" THEN count >= 5
    ELSE count >= 20 \/ count * 20 >= total

\* The if/elif chain mapping one block name to a script ("" when no branch
\* matches).
BlockScript(b) ==
    IF StartsWith(b, "Latin") THEN "latin"
    ELSE IF b = "Greek and Coptic" THEN "greek"
    ELSE IF b = "Cyrillic" THEN "cyrillic"
    ELSE IF b = "Arabic" THEN "arabic"
    ELSE IF b = "Hebrew" THEN "hebrew"
    ELSE IF b = "Devanagari" THEN "devanagari"
    ELSE IF b \in {"Hiragana", "Katakana"} THEN "japanese"
    ELSE IF b = "Hangul Syllables" THEN "korean"
    ELSE IF StartsWith(b, "CJK Unified Ideographs") THEN "han"
    ELSE ""

\* blocks = coverage.get("unicode_blocks", {}) or {}
CoverageBlocks(cov) ==
    IF "unicode_blocks" \in DOMAIN cov /\ cov.unicode_blocks # PyNone
    THEN cov.unicode_blocks ELSE EmptyDict

\* scripts_found after the block loop
ScriptsFound(blocks, lvl) ==
    LET total == IF SumValues(blocks) = 0 THEN 1 ELSE SumValues(blocks)
    IN  {BlockScript(b) :
            b \in {x \in DOMAIN blocks : significant(blocks[x], total, lvl)}}
        \ {""}

\* The CJK disambiguation and the final return of the primary path.
DisambiguateKoreanFirst(found) ==
    IF "han" \in found
    THEN IF "korean" \in found THEN <<"korean">>
         ELSE IF "japanese" \in found THEN <<"japanese">>
         ELSE <<"han">>
    ELSE IF found = {} THEN <<"unknown">> ELSE SortedScripts(found)

\* A disambiguation that puts the CJK script first and keeps the others.
DisambiguateKeepsOthers(found) ==
    IF "han" \in found
    THEN (IF "japanese" \in found THEN <<"japanese">>
          ELSE IF "korean" \in found THEN <<"korean">>
          ELSE <<"han">>)
         \o SortedScripts(found \ {"han", "japanese", "korean"})
    ELSE IF found = {} THEN <<"unknown">> ELSE SortedScripts(found)

Disambiguate(found) ==
    IF "han" \in found
    THEN IF "japanese" \in found THEN <<"japanese">>
         ELSE IF "korean" \in found THEN <<"korean">>
         ELSE <<"han">>
    ELSE IF found = {} THEN <<"unknown">> ELSE SortedScripts(found)

\* unicode_max = coverage.get("unicode", {}).get("max")
CoverageMax(cov) ==
    IF "unicode" \in DOMAIN cov /\ "max" \in DOMAIN cov.unicode
    THEN cov.unicode.max ELSE PyNone

\* A fallback path whose ranges leave out their upper ends.
FallbackScriptsOpenRanges(umax) ==
    IF IsInt(umax)
    THEN IF umax.v < 591 THEN <<"latin">>
         ELSE IF 880 <= umax.v /\ umax.v < 1023 THEN <<"greek">>
         ELSE IF 1024 <= umax.v /\ umax.v < 1279 THEN <<"cyrillic">>
         ELSE IF 1424 <= umax.v /\ umax.v < 1535 THEN <<"hebrew">>
         ELSE IF 1536 <= umax.v /\ umax.v < 1791 THEN <<"arabic">>
         ELSE IF 2304 <= umax.v /\ umax.v < 2431 THEN <<"devanagari">>
         ELSE IF umax.v > 19968 THEN <<"han">>
         ELSE <<"unknown">>
    ELSE <<"unknown">>

\* The fallback path on unicode.max.
FallbackScripts(umax) ==
    IF IsInt(umax)
    THEN IF umax.v <= 591 THEN <<"latin">>
         ELSE IF 880 <= umax.v /\ umax.v <= 1023 THEN <<"greek">>
         ELSE IF 1024 <= umax.v /\ umax.v <= 1279 THEN <<"cyrillic">>
         ELSE IF 1424 <= umax.v /\ umax.v <= 1535 THEN <<"hebrew">>
         ELSE IF 1536 <= umax.v /\ umax.v <= 1791 THEN <<"arabic">>
         ELSE IF 2304 <= umax.v /\ umax.v <= 2431 THEN <<"devanagari">>
         ELSE IF umax.v >= 19968 THEN <<"han">>
         ELSE <<"unknown">>
    ELSE <<"unknown">>

infer_scripts(cov, lvl) ==
    LET blocks == CoverageBlocks(cov)
    IN  IF DOMAIN blocks # {}
        THEN Disambiguate(ScriptsFound(blocks, lvl))
        ELSE FallbackScripts(CoverageMax(cov))

(***************************************************************************)
(* infer_languages                                                         *)
(***************************************************************************)
SCRIPT_TO_LANGUAGES ==
    [latn |-> <<"en", "it", "fr", "de", "es", "vi">>,
     grek |-> <<"el">>,
     cyrl |-> <<"ru", "uk", "bg">>,
     arab |-> <<"ar">>,
     hebr |-> <<"he">>,
     deva |-> <<"hi">>,
     hani |-> <<"zh">>,
     hang |-> <<"ko">>,
     thai |-> <<"th">>,
     armn |-> <<"hy">>,
     jpan |-> <<"ja">>,
     viet |-> <<"vi">>,
     copt |-> <<"cop">>,
     ethi |-> <<"ti">>]

\* The language codes of the table in the order sorted() puts them.
LanguageOrder ==
    <<"ar", "bg", "cop", "de", "el", "en", "es", "fr", "he", "hi", "hy",
      "it", "ja", "ko", "ru", "th", "ti", "uk", "vi", "zh">>

\* SCRIPT_TO_LANGUAGES.get(script, [])
LanguagesOf(script) ==
    IF script \in DOMAIN SCRIPT_TO_LANGUAGES
    THEN SCRIPT_TO_LANGUAGES[script] ELSE <<>>

\* langs after the loop, returned as it is: neither sorted nor made unique.
RECURSIVE InferLanguagesUnsorted(_)
InferLanguagesUnsorted(scripts) ==
    IF scripts = <<>> THEN <<>>
    ELSE LanguagesOf(Head(scripts)) \o InferLanguagesUnsorted(Tail(scripts))

infer_languages(scripts) ==
    LET langs == UNION {ToSet(LanguagesOf(scripts[i])) : i \in 1..Len(scripts)}
    IN  SelectSeq(LanguageOrder, LAMBDA l : l \in langs)

(***************************************************************************)
(* parse_inventory                                                         *)
(***************************************************************************)
\* coverage = font.get("coverage", {}) or {}
FontCoverage(font) ==
    IF "coverage" \in DOMAIN font /\ font.coverage # PyNone
    THEN font.coverage ELSE EmptyDict

\* The loop body writing the inferred scripts and languages into coverage
\* as well.
EnrichFontOverwritesDeclared(font, lvl) ==
    LET cov == FontCoverage(font)
        inferred_scripts == infer_scripts(cov, lvl)
        inferred_languages == infer_languages(inferred_scripts)
    IN  Put(Put(font, "coverage",
                Put(Put(cov, "scripts", inferred_scripts),
                    "languages", inferred_languages)),
            "inference",
            [level |-> lvl,
             scripts |-> inferred_scripts,
             languages |-> inferred_languages,
             declared_scripts |-> Get(cov, "scripts", <<>>),
             declared_languages |-> Get(cov, "languages", <<>>),
             unicode_blocks |-> Get(cov, "unicode_blocks", EmptyDict)])

\* The body of the loop over data["fonts"]: the font with its inference
\* block written.
EnrichFont(font, lvl) ==
    LET cov == FontCoverage(font)
        inferred_scripts == infer_scripts(cov, lvl)
        inferred_languages == infer_languages(inferred_scripts)
    IN  Put(font, "inference",
            [level |-> lvl,
             scripts |-> inferred_scripts,
             languages |-> inferred_languages,
             declared_scripts |-> Get(cov, "scripts", <<>>),
             declared_languages |-> Get(cov, "languages", <<>>),
             unicode_blocks |-> Get(cov, "unicode_blocks", EmptyDict)])

\* A pass that sets metadata.inference_level only when it is missing.
ParseInventoryKeepsLevel(d, lvl) ==
    LET fonts == Get(d, "fonts", <<>>)
        enriched == [i \in 1..Len(fonts) |-> EnrichFont(fonts[i], lvl)]
        withFonts == IF "fonts" \in DOMAIN d THEN Put(d, "fonts", enriched) ELSE d
        metadata == Get(withFonts, "metadata", EmptyDict)
    IN  Put(withFonts, "metadata",
            Setdefault(Setdefault(metadata, "inference_level", lvl),
                       "schema_version", "1.0"))

parse_inventory(d, lvl) ==
    LET fonts == Get(d, "fonts", <<>>)
        enriched == [i \in 1..Len(fonts) |-> EnrichFont(fonts[i], lvl)]
        withFonts == IF "fonts" \in DOMAIN d THEN Put(d, "fonts", enriched) ELSE d
        metadata == Get(withFonts, "metadata", EmptyDict)
    IN  Put(withFonts, "metadata",
            Setdefault(Put(metadata, "inference_level", lvl),
                       "schema_version", "1.0"))

(***************************************************************************)
(* The variables of the other components while one component runs.         *)
(***************************************************************************)
InferIdle == coverage = EmptyDict /\ inferred = EmptyDict
KeyIdle   == keyIn = <<>> /\ keyOut = <<>>
FaceIdle  == tt = EmptyDict /\ ttArgs = EmptyDict /\ block = EmptyDict
ParseIdle == data = EmptyDict /\ runs = <<>>
CacheIdle ==
    /\ path = "" /\ file = EmptyDict /\ cache = EmptyDict
    /\ cacheStat = EmptyDict /\ call = EmptyDict /\ fonttools = FALSE
    /\ steps = 0
LangIdle ==
    /\ scriptLists = <<>> /\ languageLists = <<>>
    /\ blockItems = <<>> /\ scriptLevel = "" /\ scriptsOut = <<>>
ValidateIdle == inventory = EmptyDict /\ validation = <<>>
ContainerIdle == probed = EmptyDict /\ detected = ""
DescIdle == descArgs = EmptyDict /\ descResult = EmptyDict
DumpIdle == fontFiles = <<>> /\ dumpCache = EmptyDict /\ dumpRun = <<>>
FcIdle == fcOutput = <<>> /\ fcResult = EmptyDict
PipeIdle == pipeDesc = EmptyDict /\ pipeParsed = EmptyDict
CoverIdle == covArgs = EmptyDict /\ covResult = EmptyDict
RaceIdle == raceArgs = EmptyDict /\ raceEntry = EmptyDict /\ raceProc = EmptyDict
LoadIdle == asRead = EmptyDict

(***************************************************************************)
(* SpecInfer: infer_scripts applied to one coverage block at the three     *)
(* levels.                                                                 *)
(***************************************************************************)
\* Block names of UNICODE_BLOCKS (src/dump_fonts.py) the histograms are
\* drawn from; "Emoticons" maps to no script.
BlockNames ==
    {"Basic Latin", "Latin Extended-A", "Greek and Coptic", "Cyrillic",
     "Arabic", "Hiragana", "Katakana", "Hangul Syllables",
     "CJK Unified Ideographs", "Emoticons"}

\* Code point counts the histograms are drawn from.
Counts == {1, 5, 20, 50, 200}

\* At most this many blocks in a drawn histogram.
MaxBlocks == 3

\* Values of unicode.max for coverage blocks without a histogram.
MaxValues == {127, 591, 592, 1023, 1279, 1535, 1791, 2431, 12543, 19968}

Histograms ==
    UNION {[S -> Counts] :
             S \in {T \in SUBSET BlockNames : Cardinality(T) <= MaxBlocks}}

\* The histograms of tests/test_infer_scripts.py and of the documented
\* scenarios.
TestHistograms ==
    {[x \in {"Latin Extended-A", "Basic Latin"} |->
         IF x = "Basic Latin" THEN 200 ELSE 100],
     [x \in {"Arabic"} |-> 150],
     [x \in {"Latin Extended-A", "Greek and Coptic"} |->
         IF x = "Greek and Coptic" THEN 80 ELSE 120],
     [x \in {"Hiragana", "Katakana", "CJK Unified Ideographs"} |->
         IF x = "Hiragana" THEN 80 ELSE IF x = "Katakana" THEN 90 ELSE 200],
     [x \in {"Cyrillic"} |-> 150],
     [x \in {"Basic Latin", "Latin Extended-A"} |->
         IF x = "Basic Latin" THEN 500 ELSE 50],
     [x \in {"Hiragana", "CJK Unified Ideographs"} |->
         IF x = "Hiragana" THEN 80 ELSE 200]}

\* The edges of the ranges of the fallback path and their neighbours
RangeEdges == {-1, 0, 879, 880, 1024, 1423, 1424, 1536, 1792, 2303, 2304, 2432, 19967}

\* A histogram no block of which is significant at the aggressive level
SparseHistogram == [x \in {"Basic Latin", "Cyrillic"} |-> 1]

Coverages ==
    {[unicode_blocks |-> h] : h \in Histograms \cup TestHistograms}
    \cup {[unicode |-> [max |-> PyInt(m)]] : m \in MaxValues \cup RangeEdges}
    \cup {[unicode |-> [max |-> PyNone]], EmptyDict,
          [unicode |-> [max |-> PyStr("591")]], [unicode |-> EmptyDict]}
    \cup {[unicode_blocks |-> h, unicode |-> [max |-> PyInt(m)]] :
             h \in TestHistograms \cup {EmptyDict, PyNone, SparseHistogram},
             m \in {127, 19968}}

InferInit ==
    /\ coverage \in Coverages
    /\ inferred = EmptyDict
    /\ KeyIdle /\ FaceIdle /\ ParseIdle /\ CacheIdle /\ LangIdle /\ ValidateIdle /\ ContainerIdle /\ DescIdle /\ DumpIdle /\ FcIdle /\ PipeIdle /\ CoverIdle /\ RaceIdle /\ LoadIdle

\* scripts = infer_scripts(coverage, lvl)
InferScripts(lvl) ==
    /\ lvl \notin DOMAIN inferred
    /\ inferred' = Put(inferred, lvl, infer_scripts(coverage, lvl))
    /\ UNCHANGED <<coverage, keyVars, faceVars, parseVars, cacheVars,
                   langVars,
                   validateVars,
                   containerVars,
                   descVars,
                   dumpVars,
                   fcVars,
                   pipeVars,
                   coverVars,
                   raceVars,
                   loadVars>>

InferNext == \E lvl \in Levels : InferScripts(lvl)

SpecInfer == InferInit /\ [][InferNext]_vars

(***************************************************************************)
(* Claims on infer_scripts (SpecInfer)                                     *)
(***************************************************************************)
\* The blocks of the drawn coverage that are significant at a level.
SignificantBlocks(lvl) ==
    LET blocks == CoverageBlocks(coverage)
        total == IF SumValues(blocks) = 0 THEN 1 ELSE SumValues(blocks)
    IN  {b \in DOMAIN blocks : significant(blocks[b], total, lvl)}

\* The set of scripts a result names; [unknown] names none.
ScriptSet(result) == ToSet(result) \ {"unknown"}

\* C7: level monotonicity.  The set of scripts returned at aggressive
\* includes the set returned at medium, which includes the set returned at
\* conservative.
C7_LevelMonotonicity ==
    /\ {"conservative", "medium"} \subseteq DOMAIN inferred
          => ScriptSet(inferred["conservative"]) \subseteq ScriptSet(inferred["medium"])
    /\ {"medium", "aggressive"} \subseteq DOMAIN inferred
          => ScriptSet(inferred["medium"]) \subseteq ScriptSet(inferred["aggressive"])

\* C9: at the default level (medium), a histogram whose blocks are all
\* significant yields four-letter codes: [latn] for Latin-prefixed blocks
\* only, [arab] for Arabic, [cyrl] for Cyrillic, {latn, grek} for Latin plus
\* Greek and Coptic, [jpan] for Hiragana plus Katakana plus CJK Unified
\* Ideographs.
C9_FourLetterCodes ==
    LET names == DOMAIN CoverageBlocks(coverage)
    IN  ("medium" \in DOMAIN inferred /\ names # {}
            /\ names = SignificantBlocks("medium"))
        => /\ (\A b \in names : StartsWith(b, "Latin"))
                 => inferred["medium"] = <<"latn">>
           /\ names = {"Arabic"} => inferred["medium"] = <<"arab">>
           /\ names = {"Cyrillic"} => inferred["medium"] = <<"cyrl">>
           /\ names = {"Latin Extended-A", "Greek and Coptic"}
                 => ToSet(inferred["medium"]) = {"latn", "grek"}
           /\ names = {"Hiragana", "Katakana", "CJK Unified Ideographs"}
                 => inferred["medium"] = <<"jpan">>

MaxFonts == 2

\* At most this many parse_inventory runs.
MaxRuns == 2

\* Coverage blocks as build_font_descriptor (src/dump_fonts.py) writes them.
DescriptorCoverage(blocks, umax, scripts, langs) ==
    [unicode |-> [count |-> SumValues(blocks), min |-> PyInt(32), max |-> umax],
     unicode_blocks |-> blocks,
     scripts |-> scripts,
     languages |-> langs,
     charset |-> PyNone]

FontPool ==
    {[identity |-> [family |-> "A"],
      coverage |-> DescriptorCoverage(
          [x \in {"Basic Latin", "Latin Extended-A"} |->
              IF x = "Basic Latin" THEN 500 ELSE 50],
          PyInt(383), <<"latn">>, <<"en", "it">>)],
     [identity |-> [family |-> "B"],
      coverage |-> DescriptorCoverage(
          [x \in {"Cyrillic"} |-> 150], PyInt(1279), <<>>, <<>>)],
     [identity |-> [family |-> "C"],
      coverage |-> DescriptorCoverage(
          [x \in {"Hiragana", "CJK Unified Ideographs"} |->
              IF x = "Hiragana" THEN 80 ELSE 200],
          PyInt(40959), <<"hani", "kana">>, <<"ja">>)],
     [identity |-> [family |-> "D"],
      coverage |-> DescriptorCoverage(
          [x \in {"Emoticons", "Arabic"} |-> IF x = "Arabic" THEN 4 ELSE 80],
          PyInt(128591), <<>>, <<>>)],
     [identity |-> [family |-> "E"],
      coverage |-> DescriptorCoverage(EmptyDict, PyInt(1023), <<"grek">>, <<"el">>)],
     [identity |-> [family |-> "F"]],
     [identity |-> [family |-> "G"],
      coverage |-> DescriptorCoverage(
          [x \in {"Emoticons", "Arabic"} |-> IF x = "Arabic" THEN 6 ELSE 200],
          PyInt(128591), <<>>, <<>>)]}

Metadatas ==
    {[schema_version |-> "1.0", platform |-> "linux"],
     [schema_version |-> "2.0", inference_level |-> "medium"],
     [platform |-> "linux"]}

Inventories ==
    {[fonts |-> f, metadata |-> m] :
        f \in UNION {[1..n -> FontPool] : n \in 0..MaxFonts}, m \in Metadatas}
    \cup {[fonts |-> f] : f \in UNION {[1..n -> FontPool] : n \in 0..MaxFonts}}

ParseInit ==
    /\ data \in Inventories
    /\ runs = <<>>
    /\ asRead = data
    /\ InferIdle /\ KeyIdle /\ FaceIdle /\ CacheIdle /\ LangIdle /\ ValidateIdle /\ ContainerIdle /\ DescIdle /\ DumpIdle /\ FcIdle /\ PipeIdle /\ CoverIdle /\ RaceIdle

\* enriched = parse_inventory(data, level); data is enriched in place
ParseInventory(lvl) ==
    /\ Len(runs) < MaxRuns
    /\ data' = parse_inventory(data, lvl)
    /\ runs' = Append(runs, lvl)
    /\ UNCHANGED <<inferVars, keyVars, faceVars, cacheVars,
                   langVars,
                   validateVars,
                   containerVars,
                   descVars,
                   dumpVars,
                   fcVars,
                   pipeVars,
                   coverVars,
                   raceVars,
                   loadVars>>

ParseNext == \E lvl \in Levels : ParseInventory(lvl)

SpecParse == ParseInit /\ [][ParseNext]_vars

\* C8: end to end.  parse_inventory at medium on the descriptor with
\* unicode_blocks {Basic Latin: 500, Latin Extended-A: 50} writes scripts
\* [latin] and languages containing en, it, fr, de, es, vi; and whenever a
\* script other than unknown was inferred, the languages are not empty.
C8_EndToEnd ==
    runs # <<>> =>
        \A i \in 1..Len(data.fonts) :
            LET inf == data.fonts[i].inference
            IN  /\ (inf.level = "medium"
                      /\ inf.unicode_blocks =
                           [x \in {"Basic Latin", "Latin Extended-A"} |->
                               IF x = "Basic Latin" THEN 500 ELSE 50])
                   => /\ inf.scripts = <<"latin">>
                      /\ {"en", "it", "fr", "de", "es", "vi"}
                            \subseteq ToSet(inf.languages)
                /\ inf.scripts # <<"unknown">> => inf.languages # <<>>

\* C12: a parse_inventory run, at any level and after any earlier runs,
\* leaves every key of every font other than inference, coverage and its
\* scripts and languages among them, as it was; it writes inference alone,
\* whose declared_scripts and declared_languages are the coverage values.
C12_NonDestructive ==
    [][\A lvl \in Levels : ParseInventory(lvl) =>
          LET old == Get(data, "fonts", <<>>)
              new == Get(data', "fonts", <<>>)
          IN  /\ Len(new) = Len(old)
              /\ \A i \in 1..Len(old) :
                    /\ DOMAIN new[i] = DOMAIN old[i] \cup {"inference"}
                    /\ \A k \in DOMAIN old[i] \ {"inference"} :
                          new[i][k] = old[i][k]
                    /\ new[i].inference.declared_scripts =
                          Get(FontCoverage(old[i]), "scripts", <<>>)
                    /\ new[i].inference.declared_languages =
                          Get(FontCoverage(old[i]), "languages", <<>>)
      ]_vars

\* Two runs at two levels on a font that declares latn and en, it: the
\* inferred script differs from the declared one, which is still there.
C12_Witness ==
    /\ Len(runs) = 2 /\ runs[1] # runs[2]
    /\ \E i \in 1..Len(data.fonts) :
          /\ "coverage" \in DOMAIN data.fonts[i]
          /\ data.fonts[i].coverage.scripts = <<"latn">>
          /\ data.fonts[i].coverage.languages = <<"en", "it">>
          /\ data.fonts[i].inference.scripts = <<"latin">>
          /\ data.fonts[i].inference.declared_scripts = <<"latn">>

(***************************************************************************)
(* font_cache_key                                                          *)
(***************************************************************************)
\* The working directory relative paths are resolved against.
Cwd == "/w"

\* path.resolve(), as a string: an absolute path stays, a relative one is
\* joined to the working directory (the modelled paths hold no symlink and
\* no dot segment).
Resolve(p) == IF StartsWith(p, "/") THEN p ELSE Cwd \o "/" \o p

\* hashlib.sha256(...).hexdigest(), taken as collision-free: the digest
\* stands for its preimage.
Sha256Hex(text) == "sha256(" \o text \o ")"

\* A key whose mtime and size run together.
FontCacheKeyNoSeparator(p, st, ttc_index) ==
    LET idx == IF ttc_index = PyNone THEN ""
               ELSE "|ttc:" \o ToString(ttc_index.v)
    IN  Sha256Hex(Resolve(p) \o "|" \o ToString(st.st_mtime_ns)
                    \o ToString(st.st_size) \o idx)

\* A key that leaves the mtime out.
FontCacheKeyWithoutMtime(p, st, ttc_index) ==
    LET idx == IF ttc_index = PyNone THEN ""
               ELSE "|ttc:" \o ToString(ttc_index.v)
    IN  Sha256Hex(Resolve(p) \o "|" \o ToString(st.st_size) \o idx)

\* font_cache_key with the file's stat result st made explicit.
FontCacheKey(p, st, ttc_index) ==
    LET idx == IF ttc_index = PyNone THEN ""
               ELSE "|ttc:" \o ToString(ttc_index.v)
        key == Resolve(p) \o "|" \o ToString(st.st_mtime_ns) \o "|"
                 \o ToString(st.st_size) \o idx
    IN  Sha256Hex(key)

(***************************************************************************)
(* SpecKey: font_cache_key on two (file, face index) inputs.               *)
(***************************************************************************)
\* Largest face index drawn.
MaxKeyIndex == 1

KeyPaths == {"/w/a.ttf", "a.ttf", "/w/b.ttc", "/w/b.ttc|1"}
KeyMtimes == {1, 12}
KeySizes == {3, 23, 1}

KeyInputs ==
    [path : KeyPaths,
     st : [st_mtime_ns : KeyMtimes, st_size : KeySizes],
     ttc_index : {PyNone} \cup {PyInt(i) : i \in 0..MaxKeyIndex}]

KeyInit ==
    /\ keyIn \in [1..2 -> KeyInputs]
    /\ keyOut = EmptyDict
    /\ InferIdle /\ FaceIdle /\ ParseIdle /\ CacheIdle /\ LangIdle /\ ValidateIdle /\ ContainerIdle /\ DescIdle /\ DumpIdle /\ FcIdle /\ PipeIdle /\ CoverIdle /\ RaceIdle /\ LoadIdle

\* key = font_cache_key(path, ttc_index) on input i
ComputeKey(i) ==
    /\ i \notin DOMAIN keyOut
    /\ keyOut' = Put(keyOut, i,
                     FontCacheKey(keyIn[i].path, keyIn[i].st, keyIn[i].ttc_index))
    /\ UNCHANGED <<keyIn, inferVars, faceVars, parseVars, cacheVars,
                   langVars,
                   validateVars,
                   containerVars,
                   descVars,
                   dumpVars,
                   fcVars,
                   pipeVars,
                   coverVars,
                   raceVars,
                   loadVars>>

KeyNext == \E i \in 1..2 : ComputeKey(i)

SpecKey == KeyInit /\ [][KeyNext]_vars

\* C1: font_cache_key is deterministic and identity-sensitive.  Two inputs
\* with the same resolved path, mtime, size and face index get the same key;
\* two inputs that differ in mtime, in size or in face index (None and 0
\* differ) get different keys.
C1_KeySensitivity ==
    DOMAIN keyOut = {1, 2} =>
        LET a == keyIn[1]
            b == keyIn[2]
        IN  /\ (Resolve(a.path) = Resolve(b.path) /\ a.st = b.st
                  /\ a.ttc_index = b.ttc_index) => keyOut[1] = keyOut[2]
            /\ (a.st.st_mtime_ns # b.st.st_mtime_ns
                  \/ a.st.st_size # b.st.st_size
                  \/ a.ttc_index # b.ttc_index) => keyOut[1] # keyOut[2]

\* C1 witness: both keys computed for the same file, face index None and
\* face index 0, and the keys differ.
C1_Witness ==
    /\ DOMAIN keyOut = {1, 2}
    /\ keyIn[1].path = keyIn[2].path /\ keyIn[1].st = keyIn[2].st
    /\ keyIn[1].ttc_index = PyNone /\ keyIn[2].ttc_index = PyInt(0)
    /\ keyOut[1] # keyOut[2]

(***************************************************************************)
(* The open face (TTFont) and the extractors of its tables                 *)
(*                                                                         *)
(* A face is a record: tags, the table tags present; one field of data per *)
(* modelled table; bad, the accesses that raise on this face:              *)
(*   "keys"      tt.keys() raises                                          *)
(*   "contains"  a membership test (tag in tt) raises                      *)
(*   a tag       tt[tag] raises (the table does not decompile)             *)
(*   "cmap.sub"  in every cmap subtable, sub.cmap and sub.isUnicode()      *)
(*               raise                                                     *)
(* A function that may raise returns Raise(message) or Return(value).      *)
(***************************************************************************)
Raise(msg) == [raised |-> TRUE, msg |-> msg]
Return(val) == [raised |-> FALSE, val |-> val]

\* tag in tt
Contains(face, tag) ==
    IF "contains" \in face.bad THEN Raise("contains")
    ELSE Return(tag \in face.tags)

\* tt[tag], for a tag that is in tt
Table(face, tag, tbl) ==
    IF tag \in face.bad THEN Raise("cannot decompile " \o tag)
    ELSE Return(tbl)

\* Table tags in the order sorted() puts them (ASCII).
TagOrder ==
    <<"CFF ", "COLR", "CPAL", "GPOS", "GSUB", "OS/2", "STAT", "cmap",
      "fvar", "glyf", "name">>

\* sorted(tt.keys())
SortedKeys(face) ==
    IF "keys" \in face.bad THEN Raise("keys")
    ELSE Return(SelectSeq(TagOrder, LAMBDA t : t \in face.tags))

\* The loop of extract_name_table over name_table.names[i..].
RECURSIVE NameLoop(_, _, _)
NameLoop(recs, i, out) ==
    IF i > Len(recs) THEN out
    ELSE LET rec == recs[i]
             \* s = rec.toUnicode(), else str(rec), else skip the record
             got == IF rec.unicodeOk THEN Return(rec.unicode)
                    ELSE IF rec.strOk THEN Return(rec.str)
                    ELSE Raise("skip")
         IN  IF got.raised \/ got.val = "" THEN NameLoop(recs, i + 1, out)
             ELSE LET key == ToString(rec.nameID)
                      old == Get(out, key, <<>>)
                      new == IF got.val \in ToSet(old) THEN old
                             ELSE Append(old, got.val)
                  IN  NameLoop(recs, i + 1, Put(out, key, new))

extract_name_table(face) ==
    LET has == Contains(face, "name")
    IN  IF has.raised THEN has
        ELSE IF ~has.val THEN Return(EmptyDict)
        ELSE LET t == Table(face, "name", face.name)
             IN  IF t.raised THEN t
                 ELSE Return(NameLoop(t.val, 1, EmptyDict))

\* (attr, key) pairs of extract_os2_table
OS2Attrs ==
    [usWeightClass |-> "weight_class", usWidthClass |-> "width_class",
     fsType |-> "embedding_rights", achVendID |-> "vendor_id",
     version |-> "version"]

\* The OS/2 table is a record of the attributes it has; getattr on a
\* missing attribute raises and the key is skipped.  vendor_id is a str
\* already.
extract_os2_table(face) ==
    LET has == Contains(face, "OS/2")
    IN  IF has.raised THEN has
        ELSE IF ~has.val THEN Return(EmptyDict)
        ELSE LET t == Table(face, "OS/2", face.os2)
             IN  IF t.raised THEN t
                 ELSE Return(
                     [key \in {OS2Attrs[a] : a \in DOMAIN OS2Attrs \cap DOMAIN t.val}
                        |-> LET a == CHOOSE x \in DOMAIN OS2Attrs : OS2Attrs[x] = key
                            IN  t.val[a]])

\* detect_color_tables
ColorCandidates == <<"COLR", "CPAL", "CBDT", "CBLC", "sbix", "SVG ">>

detect_color_tables(face) ==
    IF "contains" \in face.bad THEN Raise("contains")
    ELSE Return(SelectSeq(ColorCandidates, LAMBDA t : t \in face.tags))

\* UNICODE_BLOCKS: (name, start, end)
UNICODE_BLOCKS ==
    <<<<"Basic Latin", 0, 127>>,
      <<"Latin-1 Supplement", 128, 255>>,
      <<"Latin Extended-A", 256, 383>>,
      <<"Latin Extended-B", 384, 591>>,
      <<"Greek and Coptic", 880, 1023>>,
      <<"Cyrillic", 1024, 1279>>,
      <<"Arabic", 1536, 1791>>,
      <<"Hebrew", 1424, 1535>>,
      <<"Devanagari", 2304, 2431>>,
      <<"CJK Unified Ideographs", 19968, 40959>>,
      <<"CJK Unified Ideographs Extension A", 13312, 19903>>,
      <<"CJK Unified Ideographs Extension B", 131072, 173791>>,
      <<"CJK Unified Ideographs Extension C", 173824, 177983>>,
      <<"CJK Unified Ideographs Extension D", 177984, 178207>>,
      <<"CJK Unified Ideographs Extension E", 178208, 183983>>,
      <<"CJK Unified Ideographs Extension F", 183984, 191471>>,
      <<"Hiragana", 12352, 12447>>,
      <<"Katakana", 12448, 12543>>,
      <<"Hangul Syllables", 44032, 55215>>,
      <<"Miscellaneous Symbols", 9728, 9983>>,
      <<"Emoticons", 128512, 128591>>>>

compute_unicode_blocks(codepoints) ==
    LET count(i) == Cardinality({cp \in codepoints :
                        UNICODE_BLOCKS[i][2] <= cp /\ cp <= UNICODE_BLOCKS[i][3]})
        hit == {i \in 1..Len(UNICODE_BLOCKS) : count(i) > 0}
    IN  [name \in {UNICODE_BLOCKS[i][1] : i \in hit} |->
            count(CHOOSE i \in hit : UNICODE_BLOCKS[i][1] = name)]

Min(S) == CHOOSE x \in S : \A y \in S : x <= y
Max(S) == CHOOSE x \in S : \A y \in S : x >= y

\* The loop of extract_unicode_coverage over cmap.tables[i..]: a subtable
\* whose cmap raises is skipped; the loop stops once more than limit code
\* points are collected.
RECURSIVE CoverageLoop(_, _, _, _, _)
CoverageLoop(face, subs, i, cps, limit) ==
    IF i > Len(subs) THEN cps
    ELSE IF "cmap.sub" \in face.bad THEN CoverageLoop(face, subs, i + 1, cps, limit)
    ELSE LET next == cps \cup subs[i].cmap
         IN  IF Cardinality(next) > limit THEN next
             ELSE CoverageLoop(face, subs, i + 1, next, limit)

extract_unicode_coverage(face, limit) ==
    LET has == Contains(face, "cmap")
    IN  IF has.raised THEN has
        ELSE IF ~has.val THEN Return(EmptyDict)
        ELSE LET t == Table(face, "cmap", face.cmap)
             IN  IF t.raised THEN t
                 ELSE LET cps == CoverageLoop(face, t.val, 1, {}, limit)
                      IN  IF cps = {}
                          THEN Return([count |-> 0, min |-> PyNone, max |-> PyNone])
                          ELSE Return([count |-> Cardinality(cps),
                                       min |-> PyInt(Min(cps)),
                                       max |-> PyInt(Max(cps))])

\* The guard rail of the unicode_blocks step.
BlocksLimit == 200000

\* The inner loop of the unicode_blocks step: the code points of one
\* subtable are added one at a time, in ascending order, until the set
\* holds limit of them.
RECURSIVE AddCodePoints(_, _, _)
AddCodePoints(cps, todo, limit) ==
    IF todo = {} THEN cps
    ELSE LET cp == Min(todo)
         IN  IF Cardinality(cps \cup {cp}) >= limit THEN cps \cup {cp}
             ELSE AddCodePoints(cps \cup {cp}, todo \ {cp}, limit)

\* The code point loop of the unicode_blocks step over cmap.tables[i..]
\* with its guard rail at limit (BlocksLimit in the code): only Unicode
\* subtables count, and both loops stop once limit code points are held.
RECURSIVE BlocksLoop(_, _, _, _)
BlocksLoop(subs, i, cps, limit) ==
    IF i > Len(subs) THEN cps
    ELSE IF ~subs[i].isUnicode THEN BlocksLoop(subs, i + 1, cps, limit)
    ELSE IF Cardinality(AddCodePoints(cps, subs[i].cmap, limit)) >= limit
    THEN AddCodePoints(cps, subs[i].cmap, limit)
    ELSE BlocksLoop(subs, i + 1, AddCodePoints(cps, subs[i].cmap, limit), limit)

\* The body of the try block that computes data["unicode_blocks"].
ExtractUnicodeBlocks(face) ==
    LET has == Contains(face, "cmap")
    IN  IF has.raised THEN has
        ELSE IF ~has.val THEN Return(EmptyDict)
        ELSE LET t == Table(face, "cmap", face.cmap)
             IN  IF t.raised THEN t
                 ELSE IF t.val # <<>> /\ "cmap.sub" \in face.bad
                 THEN Raise("subtable")
                 ELSE LET cps == BlocksLoop(t.val, 1, {}, BlocksLimit)
                      IN  Return(IF cps # {} THEN compute_unicode_blocks(cps)
                                 ELSE EmptyDict)

\* Feature tags in the order sorted() puts them.
FeatureOrder == <<"kern", "liga", "mark", "smcp">>

\* The loop of extract_opentype_features over ("GSUB", "GPOS")[i..]: a
\* table is a record with FeatureList, a set of tags, or with no
\* FeatureList attribute (reading it raises, and the table is skipped).
RECURSIVE FeatureLoop(_, _, _)
FeatureLoop(face, i, feats) ==
    LET tags == <<"GSUB", "GPOS">>
    IN  IF i > Len(tags) THEN Return(SelectSeq(FeatureOrder, LAMBDA f : f \in feats))
        ELSE LET has == Contains(face, tags[i])
             IN  IF has.raised THEN has
                 ELSE IF ~has.val THEN FeatureLoop(face, i + 1, feats)
                 ELSE LET t == Table(face, tags[i],
                                     IF tags[i] = "GSUB" THEN face.gsub ELSE face.gpos)
                      IN  IF t.raised THEN t
                          ELSE IF "FeatureList" \notin DOMAIN t.val
                          THEN FeatureLoop(face, i + 1, feats)
                          ELSE FeatureLoop(face, i + 1, feats \cup t.val.FeatureList)

extract_opentype_features(face) == FeatureLoop(face, 1, {})

(***************************************************************************)
(* _fonttools_extract_from_tt                                              *)
(***************************************************************************)
\* The default limit of extract_unicode_coverage.
CoverageLimit == 200000

\* try: value = step  except Exception as e: value = {"error": f"<label>: {e}"}
TryMarker(step, label) ==
    IF step.raised THEN [error |-> label \o ": " \o step.msg] ELSE step.val

\* try: value = step  except Exception: value = default
TryDefault(step, default) == IF step.raised THEN default ELSE step.val

\* The font_type step.
FontType(face) ==
    LET cff == Contains(face, "CFF ")
        glyf == Contains(face, "glyf")
    IN  IF cff.raised THEN cff
        ELSE IF cff.val THEN Return("OpenType CFF")
        ELSE IF glyf.raised THEN glyf
        ELSE IF glyf.val THEN Return("TrueType")
        ELSE Return("Unknown")

\* The variable step.
VariableFlags(face) ==
    LET fvar == Contains(face, "fvar")
        stat == Contains(face, "STAT")
    IN  IF fvar.raised THEN fvar
        ELSE IF stat.raised THEN stat
        ELSE Return([fvar |-> fvar.val, STAT |-> stat.val])

\* A variant in which the first step that raises ends the extraction: the
\* block is marked failed and the later fields keep their defaults.
ExtractAbortsOnFirstError(container, face, ttc_index) ==
    LET names == extract_name_table(face)
        os2 == extract_os2_table(face)
        uni == extract_unicode_coverage(face, CoverageLimit)
        failed == names.raised \/ os2.raised
    IN  [ok |-> ~failed,
         container |-> container,
         ttc_index |-> ttc_index,
         tables |-> TryDefault(SortedKeys(face), <<>>),
         font_type |-> TryDefault(FontType(face), "Unknown"),
         names |-> TryMarker(names, "name"),
         os2 |-> IF names.raised THEN EmptyDict
                 ELSE TryMarker(os2, "OS/2"),
         unicode |-> IF failed THEN EmptyDict
                     ELSE TryMarker(uni, "unicode"),
         unicode_blocks |-> IF failed THEN EmptyDict
                            ELSE TryMarker(ExtractUnicodeBlocks(face), "unicode_blocks"),
         variable |-> TryDefault(VariableFlags(face), [fvar |-> FALSE, STAT |-> FALSE]),
         color_tables |-> TryDefault(detect_color_tables(face), <<>>),
         opentype_features |-> TryDefault(extract_opentype_features(face), <<>>)]

\* _fonttools_extract_from_tt(path=, container=, tt=, ttc_index=); path is
\* not read.
FonttoolsExtractFromTT(container, face, ttc_index) ==
    [ok |-> TRUE,
     container |-> container,
     ttc_index |-> ttc_index,
     tables |-> TryDefault(SortedKeys(face), <<>>),
     font_type |-> TryDefault(FontType(face), "Unknown"),
     names |-> TryMarker(extract_name_table(face), "name"),
     os2 |-> TryMarker(extract_os2_table(face), "OS/2"),
     unicode |-> TryMarker(extract_unicode_coverage(face, CoverageLimit), "unicode"),
     unicode_blocks |-> TryMarker(ExtractUnicodeBlocks(face), "unicode_blocks"),
     variable |-> TryDefault(VariableFlags(face), [fvar |-> FALSE, STAT |-> FALSE]),
     color_tables |-> TryDefault(detect_color_tables(face), <<>>),
     opentype_features |-> TryDefault(extract_opentype_features(face), <<>>)]

(***************************************************************************)
(* SpecFace: _fonttools_extract_from_tt applied to one face.               *)
(***************************************************************************)
\* At most this many failing accesses on a drawn face.
MaxBad == 2

FailureSources ==
    {"keys", "contains", "name", "OS/2", "cmap", "cmap.sub", "GSUB", "GPOS"}

NameTables ==
    {<<[nameID |-> 1, unicodeOk |-> TRUE, unicode |-> "Deja Vu", strOk |-> TRUE, str |-> "Deja Vu"],
       [nameID |-> 2, unicodeOk |-> TRUE, unicode |-> "Book", strOk |-> TRUE, str |-> "Book"],
       [nameID |-> 1, unicodeOk |-> TRUE, unicode |-> "Deja Vu", strOk |-> TRUE, str |-> "Deja Vu"],
       [nameID |-> 1, unicodeOk |-> FALSE, unicode |-> "", strOk |-> TRUE, str |-> "DejaVu"],
       [nameID |-> 4, unicodeOk |-> FALSE, unicode |-> "", strOk |-> FALSE, str |-> ""],
       [nameID |-> 6, unicodeOk |-> TRUE, unicode |-> "", strOk |-> TRUE, str |-> ""]>>}

OS2Tables ==
    {[usWeightClass |-> 400, usWidthClass |-> 5, fsType |-> 0,
      achVendID |-> "PfEd", version |-> 4],
     [usWeightClass |-> 700, version |-> 0]}

CmapTables ==
    {<<[isUnicode |-> TRUE, cmap |-> {65, 66, 97, 233, 1040}],
       [isUnicode |-> FALSE, cmap |-> {65, 200}]>>,
     <<[isUnicode |-> TRUE, cmap |-> {12354, 19968, 19969}],
       [isUnicode |-> TRUE, cmap |-> {19968, 128512}]>>,
     <<>>}

LayoutTables ==
    {[FeatureList |-> {"liga", "kern"}], [version |-> 1]}

\* The tags outside the modelled tables a face may carry.
OtherTagSets == {{"glyf"}, {"CFF ", "COLR", "CPAL"}, {"fvar", "STAT", "glyf"}, {}}

\* A face with the given tables present; an absent table has no data.
Face(other, name, os2, cmap, gsub, gpos, bad) ==
    [tags |-> other
              \cup (IF name.has THEN {"name"} ELSE {})
              \cup (IF os2.has THEN {"OS/2"} ELSE {})
              \cup (IF cmap.has THEN {"cmap"} ELSE {})
              \cup (IF gsub.has THEN {"GSUB"} ELSE {})
              \cup (IF gpos.has THEN {"GPOS"} ELSE {}),
     name |-> name.tbl, os2 |-> os2.tbl, cmap |-> cmap.tbl,
     gsub |-> gsub.tbl, gpos |-> gpos.tbl, bad |-> bad]

Absent == [has |-> FALSE, tbl |-> EmptyDict]
Present(tables) == {[has |-> TRUE, tbl |-> t] : t \in tables}

Faces ==
    {Face(other, name, os2, cmap, gsub, Absent, bad) :
        other \in OtherTagSets,
        name \in {Absent} \cup Present(NameTables),
        os2 \in {Absent} \cup Present(OS2Tables),
        cmap \in {Absent} \cup Present(CmapTables),
        gsub \in {Absent} \cup Present(LayoutTables),
        bad \in {B \in SUBSET FailureSources : Cardinality(B) <= MaxBad}}

FaceInit ==
    /\ tt \in Faces
    /\ ttArgs \in [container : {"TTF", "TTC"}, ttc_index : {PyNone, PyInt(0)}]
    /\ block = EmptyDict
    /\ InferIdle /\ KeyIdle /\ ParseIdle /\ CacheIdle /\ LangIdle /\ ValidateIdle /\ ContainerIdle /\ DescIdle /\ DumpIdle /\ FcIdle /\ PipeIdle /\ CoverIdle /\ RaceIdle /\ LoadIdle

\* data = _fonttools_extract_from_tt(path=..., container=..., tt=tt, ttc_index=...)
ExtractFromTT ==
    /\ block = EmptyDict
    /\ block' = FonttoolsExtractFromTT(ttArgs.container, tt, ttArgs.ttc_index)
    /\ UNCHANGED <<tt, ttArgs, inferVars, keyVars, parseVars, cacheVars,
                   langVars,
                   validateVars,
                   containerVars,
                   descVars,
                   dumpVars,
                   fcVars,
                   pipeVars,
                   coverVars,
                   raceVars,
                   loadVars>>

FaceNext == ExtractFromTT

SpecFace == FaceInit /\ [][FaceNext]_vars

\* The failing accesses each field's extraction performs.
FieldReads ==
    [tables |-> {"keys"},
     font_type |-> {"contains"},
     names |-> {"contains", "name"},
     os2 |-> {"contains", "OS/2"},
     unicode |-> {"contains", "cmap", "cmap.sub"},
     unicode_blocks |-> {"contains", "cmap", "cmap.sub"},
     variable |-> {"contains"},
     color_tables |-> {"contains"},
     opentype_features |-> {"contains", "GSUB", "GPOS"}]

\* The error marker or default a field carries when its step raised.
IsErrorOrDefault(field, value) ==
    IF field \in {"names", "os2", "unicode", "unicode_blocks"}
    THEN DOMAIN value = {"error"}
    ELSE IF field = "font_type" THEN value = "Unknown"
    ELSE IF field = "variable" THEN value = [fvar |-> FALSE, STAT |-> FALSE]
    ELSE value = <<>>

\* C6: per-field failure isolation.  Whatever accesses fail on the face,
\* the block has ok = True; every field none of whose accesses fails has
\* the value it has on the same face without any failure; a field carries
\* an error marker only if one of its own accesses fails; a field that
\* differs from its value on the healthy face carries its error marker or
\* default (unicode, which skips failing subtables, an empty summary); and
\* when the OS/2
\* table alone is malformed, os2 is {error: ...} next to the names and
\* unicode of the healthy face.
C6_FieldIsolation ==
    block # EmptyDict =>
        LET healthy == FonttoolsExtractFromTT(ttArgs.container,
                           [tt EXCEPT !.bad = {}], ttArgs.ttc_index)
        IN  /\ block.ok = TRUE
            /\ block.container = ttArgs.container
            /\ block.ttc_index = ttArgs.ttc_index
            /\ \A f \in DOMAIN FieldReads :
                  /\ FieldReads[f] \cap tt.bad = {} => block[f] = healthy[f]
                  /\ (f \in {"names", "os2", "unicode", "unicode_blocks"}
                        /\ "error" \in DOMAIN block[f])
                     => FieldReads[f] \cap tt.bad # {}
            /\ \A f \in DOMAIN FieldReads :
                  block[f] # healthy[f]
                  => \/ IsErrorOrDefault(f, block[f])
                     \/ /\ f = "unicode" /\ "cmap.sub" \in tt.bad
                        /\ block[f] = [count |-> 0, min |-> PyNone, max |-> PyNone]
            /\ (tt.bad = {"OS/2"} /\ "OS/2" \in tt.tags)
                  => /\ DOMAIN block.os2 = {"error"}
                     /\ block.names = healthy.names
                     /\ block.unicode = healthy.unicode

\* C6 witness: a face with name, OS/2 and cmap tables whose OS/2 table
\* alone is malformed has been extracted: os2 carries the error marker,
\* names and unicode are populated.
C6_Witness ==
    /\ block # EmptyDict
    /\ tt.bad = {"OS/2"}
    /\ {"name", "OS/2", "cmap"} \subseteq tt.tags
    /\ DOMAIN block.os2 = {"error"}
    /\ DOMAIN block.names # {} /\ "error" \notin DOMAIN block.names
    /\ block.unicode.count > 0

(***************************************************************************)
(* The cache files: json.dumps / json.loads                                *)
(*                                                                         *)
(* The text of a cache file is modelled by what json.loads makes of it:    *)
(* kind "garbage" is text that does not parse (empty, truncated, not       *)
(* UTF-8), kind "json" is a JSON document: an object with its members, an  *)
(* array, or null.  In a document None is null.  A Python value that is    *)
(* not a dict is wrapped in a record with a field t (PyNone, PyList).      *)
(***************************************************************************)
JsonNull == [j |-> "null"]
PyList(items) == [t |-> "list", items |-> items]

\* isinstance(x, dict)
IsDict(x) == "t" \notin DOMAIN x

\* The members of a face block that may be None.
ToJsonScalar(x) == IF x = PyNone THEN JsonNull ELSE x
FromJsonScalar(x) == IF x = JsonNull THEN PyNone ELSE x

ToJsonSummary(u) ==
    [k \in DOMAIN u |-> IF k \in {"min", "max"} THEN ToJsonScalar(u[k]) ELSE u[k]]
FromJsonSummary(u) ==
    [k \in DOMAIN u |-> IF k \in {"min", "max"} THEN FromJsonScalar(u[k]) ELSE u[k]]

\* json.dumps(out, indent=2) of a face block
Dumps(out) ==
    [kind |-> "json",
     doc |-> [type |-> "object",
              members |-> [k \in DOMAIN out |->
                  IF k = "ttc_index" THEN ToJsonScalar(out[k])
                  ELSE IF k = "unicode" THEN ToJsonSummary(out[k])
                  ELSE out[k]]]]

\* json.loads(cache_file.read_text(encoding="utf-8"))
Loads(text) ==
    IF text.kind # "json" THEN Raise("JSONDecodeError")
    ELSE IF text.doc.type = "object"
    THEN Return([k \in DOMAIN text.doc.members |->
                  IF k = "ttc_index" THEN FromJsonScalar(text.doc.members[k])
                  ELSE IF k = "unicode" THEN FromJsonSummary(text.doc.members[k])
                  ELSE text.doc.members[k]])
    ELSE IF text.doc.type = "array" THEN Return(PyList(text.doc.items))
    ELSE Return(PyNone)

(***************************************************************************)
(* The font file: detect_font_container, TTFont(path), TTCollection(path)  *)
(*                                                                         *)
(* file = [st, content, access].  st is what path.stat() returns.  content *)
(* = [head, faces, good]: the first four bytes, the faces the file holds,  *)
(* and whether its table directory parses.  access is "ok", "unreadable"   *)
(* (stat works, open raises) or "missing" (stat raises too).               *)
(***************************************************************************)
\* str.lower() on the letters the modelled suffixes use
LowerChar(c) ==
    CASE c = "T" -> "t" [] c = "C" -> "c" [] c = "F" -> "f" [] c = "O" -> "o"
      [] c = "R" -> "r" [] c = "U" -> "u" [] c = "E" -> "e"
      [] OTHER -> c

RECURSIVE Lower(_)
Lower(str) ==
    IF Len(str) = 0 THEN ""
    ELSE LowerChar(SubSeq(str, 1, 1)) \o Lower(SubSeq(str, 2, Len(str)))

\* path.suffix: from the last dot of the last path component
Suffix(p) ==
    LET dots == {i \in 2..Len(p) :
                    /\ SubSeq(p, i, i) = "."
                    /\ SubSeq(p, i - 1, i - 1) # "/"
                    /\ \A j \in i..Len(p) : SubSeq(p, j, j) # "/"}
    IN  IF dots = {} THEN "" ELSE SubSeq(p, Max(dots), Len(p))

\* head = f.read(4), b"" when the file cannot be opened
ReadHead(f) == IF f.access = "ok" THEN f.content.head ELSE ""

detect_font_container(p, f) ==
    LET ext == Lower(Suffix(p))
        head == ReadHead(f)
    IN  IF head = "ttcf" THEN "TTC"
        ELSE IF head = "wOFF" \/ ext = ".woff" THEN "WOFF"
        ELSE IF head = "wOF2" \/ ext = ".woff2" THEN "WOFF2"
        ELSE IF head = "OTTO" \/ ext = ".otf" THEN "OTF"
        ELSE IF head \in {"\\x00\\x01\\x00\\x00", "true", "typ1"} \/ ext = ".ttf"
        THEN "TTF"
        ELSE IF ext = ".ttc" THEN "TTC"
        ELSE "UNKNOWN"

\* path.stat()
Stat(f) == IF f.access = "missing" THEN Raise("No such file") ELSE Return(f.st)

\* TTFont(path, lazy=True, ...): the face of a single-face file
OpenTTFont(f) ==
    IF f.access # "ok" THEN Raise("cannot open file")
    ELSE IF ~f.content.good \/ f.content.head \in {"ttcf", "junk"}
    THEN Raise("Not a TrueType or OpenType font")
    ELSE Return(f.content.faces[1])

\* TTCollection(path): col.fonts
OpenTTCollection(f) ==
    IF f.access # "ok" THEN Raise("cannot open file")
    ELSE IF ~f.content.good \/ f.content.head # "ttcf"
    THEN Raise("Not a Font Collection")
    ELSE Return(f.content.faces)

(***************************************************************************)
(* fonttools_extract_all                                                   *)
(*                                                                         *)
(* The operators below return what one call does: raised (an exception     *)
(* leaves the function), result (the list returned) and cache (cache_dir   *)
(* after the call).  For the properties they also record extracted (the    *)
(* ttc_index of every call of _fonttools_extract_from_tt, in order), hits  *)
(* (the positions of result read from the cache), keys (per position of    *)
(* result, the cache key it was read from or written under) and origin     *)
(* (per position, the stat of the file under which the block was cached or *)
(* extracted; cacheStat keeps it for every cache file).                    *)
(***************************************************************************)
Outcome(raised, result, ch, chStat, extracted, hits, keys, origin) ==
    [raised |-> raised, result |-> result, cache |-> ch, cacheStat |-> chStat,
     extracted |-> extracted, hits |-> hits, keys |-> keys, origin |-> origin]

\* The single-face branch with the cache never read.
ExtractSingleNoCacheRead(p, f, container, ch, chStat, use_cache) ==
    LET st == Stat(f)
    IN  IF st.raised THEN Outcome(TRUE, <<>>, ch, chStat, <<>>, {}, <<>>, <<>>)
        ELSE
        LET key == FontCacheKey(p, st.val, PyNone)
            tt0 == OpenTTFont(f)
            out == IF tt0.raised
                   THEN [ok |-> FALSE, container |-> container,
                         ttc_index |-> PyNone,
                         error |-> "Cannot open font: " \o tt0.msg]
                   ELSE FonttoolsExtractFromTT(container, tt0.val, PyNone)
        IN  Outcome(FALSE, <<out>>, Put(ch, key, Dumps(out)),
                    Put(chStat, key, st.val),
                    IF tt0.raised THEN <<>> ELSE <<PyNone>>, {}, <<key>>,
                    <<st.val>>)

\* A single-face branch that takes a cached block only when it is ok.
ExtractSingleRetriesFailures(p, f, container, ch, chStat, use_cache) ==
    LET st == Stat(f)
    IN  IF st.raised THEN Outcome(TRUE, <<>>, ch, chStat, <<>>, {}, <<>>, <<>>)
        ELSE
        LET key == FontCacheKey(p, st.val, PyNone)
            cached == IF use_cache /\ key \in DOMAIN ch
                      THEN Loads(ch[key]) ELSE Raise("miss")
            tt0 == OpenTTFont(f)
            out == IF tt0.raised
                   THEN [ok |-> FALSE, container |-> container,
                         ttc_index |-> PyNone,
                         error |-> "Cannot open font: " \o tt0.msg]
                   ELSE FonttoolsExtractFromTT(container, tt0.val, PyNone)
        IN  IF ~cached.raised /\ cached.val.ok
            THEN Outcome(FALSE, <<cached.val>>, ch, chStat, <<>>, {1},
                         <<key>>, <<chStat[key]>>)
            ELSE Outcome(FALSE, <<out>>, Put(ch, key, Dumps(out)),
                         Put(chStat, key, st.val),
                         IF tt0.raised THEN <<>> ELSE <<PyNone>>, {}, <<key>>,
                         <<st.val>>)

\* The single-face branch.
ExtractSingle(p, f, container, ch, chStat, use_cache) ==
    LET st == Stat(f)
    IN  IF st.raised THEN Outcome(TRUE, <<>>, ch, chStat, <<>>, {}, <<>>, <<>>)
        ELSE
        LET key == FontCacheKey(p, st.val, PyNone)
            cached == IF use_cache /\ key \in DOMAIN ch
                      THEN Loads(ch[key]) ELSE Raise("miss")
            tt0 == OpenTTFont(f)
            out == IF tt0.raised
                   THEN [ok |-> FALSE, container |-> container,
                         ttc_index |-> PyNone,
                         error |-> "Cannot open font: " \o tt0.msg]
                   ELSE FonttoolsExtractFromTT(container, tt0.val, PyNone)
        IN  IF ~cached.raised
            THEN Outcome(FALSE, <<cached.val>>, ch, chStat, <<>>, {1},
                         <<key>>, <<chStat[key]>>)
            ELSE Outcome(FALSE, <<out>>, Put(ch, key, Dumps(out)),
                         Put(chStat, key, st.val),
                         IF tt0.raised THEN <<>> ELSE <<PyNone>>, {}, <<key>>,
                         <<st.val>>)

\* The branch of a collection that does not open.
ExtractBrokenCollection(p, f, msg, ch, chStat) ==
    LET st == Stat(f)
        out == [ok |-> FALSE, container |-> "TTC", ttc_index |-> PyNone,
                error |-> "Cannot open TTC: " \o msg]
    IN  IF st.raised THEN Outcome(TRUE, <<>>, ch, chStat, <<>>, {}, <<>>, <<>>)
        ELSE LET key == FontCacheKey(p, st.val, PyNone)
             IN  Outcome(FALSE, <<out>>, Put(ch, key, Dumps(out)),
                         Put(chStat, key, st.val), <<>>, {}, <<key>>,
                         <<st.val>>)

\* The loop over enumerate(col.fonts) from index idx on; acc is the outcome
\* so far.
RECURSIVE FaceLoop(_, _, _, _, _, _)
FaceLoop(p, st, fonts, idx, use_cache, acc) ==
    IF idx >= Len(fonts) THEN acc
    ELSE
    LET ttc_count == Len(fonts)
        key == FontCacheKey(p, st, PyInt(idx))
        loaded == IF use_cache /\ key \in DOMAIN acc.cache
                  THEN Loads(acc.cache[key]) ELSE Raise("miss")
        cached == IF IsDict(loaded.val)
                  THEN Setdefault(Setdefault(Setdefault(loaded.val,
                           "container", "TTC"), "ttc_index", PyInt(idx)),
                           "ttc_count", ttc_count)
                  ELSE loaded.val
        out == Put(FonttoolsExtractFromTT("TTC", fonts[idx + 1], PyInt(idx)),
                   "ttc_count", ttc_count)
    IN  IF ~loaded.raised
        THEN FaceLoop(p, st, fonts, idx + 1, use_cache,
                 Outcome(FALSE, Append(acc.result, cached), acc.cache,
                         acc.cacheStat, acc.extracted,
                         acc.hits \cup {idx + 1}, Append(acc.keys, key),
                         Append(acc.origin, acc.cacheStat[key])))
        ELSE FaceLoop(p, st, fonts, idx + 1, use_cache,
                 Outcome(FALSE, Append(acc.result, out),
                         Put(acc.cache, key, Dumps(out)),
                         Put(acc.cacheStat, key, st),
                         Append(acc.extracted, PyInt(idx)), acc.hits,
                         Append(acc.keys, key), Append(acc.origin, st)))

fonttools_extract_all(p, f, ch, chStat, use_cache, available) ==
    LET container == detect_font_container(p, f)
        col == OpenTTCollection(f)
    IN  IF ~available
        THEN Outcome(FALSE,
                     <<[ok |-> FALSE, container |-> container,
                        ttc_index |-> PyNone,
                        error |-> "fontTools not available"]>>,
                     ch, chStat, <<>>, {}, <<>>, <<>>)
        ELSE IF container # "TTC"
        THEN ExtractSingle(p, f, container, ch, chStat, use_cache)
        ELSE IF col.raised
        THEN ExtractBrokenCollection(p, f, col.msg, ch, chStat)
        ELSE FaceLoop(p, f.st, col.val, 0, use_cache,
                      Outcome(FALSE, <<>>, ch, chStat, <<>>, {}, <<>>, <<>>))

(***************************************************************************)
(* Spec: one font file, the cache directory, and a sequence of             *)
(* fonttools_extract_all calls with the file rewritten, removed or made    *)
(* unreadable in between.                                                  *)
(***************************************************************************)
\* At most this many operations in a run.
MaxSteps == 3

\* At most this many faces in a collection.
MaxFaces == 2

CachePaths == {"/w/a.ttf", "/w/b.TTC"}

\* What path.stat() may return: the mtime alone, the size alone or both
\* differ between two of them.
Stats ==
    {[st_mtime_ns |-> 1, st_size |-> 3], [st_mtime_ns |-> 12, st_size |-> 3],
     [st_mtime_ns |-> 1, st_size |-> 23]}

\* The face number v of the modelled files.
CacheFace(v) ==
    Face({"glyf"},
         [has |-> TRUE,
          tbl |-> <<[nameID |-> 1, unicodeOk |-> TRUE,
                     unicode |-> "Face " \o ToString(v),
                     strOk |-> TRUE, str |-> "Face " \o ToString(v)]>>],
         Absent,
         [has |-> TRUE, tbl |-> <<[isUnicode |-> TRUE, cmap |-> {65, 66 + v}]>>],
         Absent, Absent, {})

Contents ==
    {[head |-> "OTTO", faces |-> <<CacheFace(v)>>, good |-> TRUE] : v \in {0, 10}}
    \cup {[head |-> "ttcf", faces |-> [i \in 1..n |-> CacheFace(v + i - 1)],
           good |-> TRUE] : n \in 1..MaxFaces, v \in {0, 10}}
    \cup {[head |-> h, faces |-> <<>>, good |-> FALSE] : h \in {"ttcf", "junk"}}

Init ==
    /\ path \in CachePaths
    /\ file \in [st : Stats, content : Contents, access : {"ok"}]
    /\ cache = EmptyDict
    /\ cacheStat = EmptyDict
    /\ call = EmptyDict
    /\ fonttools \in BOOLEAN
    /\ steps = 0
    /\ InferIdle /\ KeyIdle /\ FaceIdle /\ ParseIdle /\ LangIdle /\ ValidateIdle /\ ContainerIdle /\ DescIdle /\ DumpIdle /\ FcIdle /\ PipeIdle /\ CoverIdle /\ RaceIdle /\ LoadIdle

\* faces = fonttools_extract_all(path, cache_dir, use_cache)
ExtractAllCall(use_cache) ==
    /\ steps < MaxSteps
    /\ LET r == fonttools_extract_all(path, file, cache, cacheStat, use_cache,
                                      fonttools)
       IN  /\ cache' = r.cache
           /\ cacheStat' = r.cacheStat
           /\ call' = [use_cache |-> use_cache, file |-> file,
                       raised |-> r.raised, result |-> r.result,
                       extracted |-> r.extracted, hits |-> r.hits,
                       keys |-> r.keys, origin |-> r.origin]
    /\ steps' = steps + 1
    /\ UNCHANGED <<path, file, fonttools, inferVars, keyVars, faceVars, parseVars,
                   langVars,
                   validateVars,
                   containerVars,
                   descVars,
                   dumpVars,
                   fcVars,
                   pipeVars,
                   coverVars,
                   raceVars,
                   loadVars>>

\* The file is rewritten: new content, new mtime and size (any may stay).
WriteFile(st, content) ==
    /\ steps < MaxSteps
    /\ file.access # "missing"
    /\ <<st, content>> # <<file.st, file.content>>
    /\ file' = [file EXCEPT !.st = st, !.content = content]
    /\ steps' = steps + 1
    /\ UNCHANGED <<path, cache, cacheStat, call, fonttools,
                   inferVars, keyVars, faceVars, parseVars,
                   langVars,
                   validateVars,
                   containerVars,
                   descVars,
                   dumpVars,
                   fcVars,
                   pipeVars,
                   coverVars,
                   raceVars,
                   loadVars>>

\* The file is removed, restored, or its permissions change; its stat and
\* content stay.
SetAccess(access) ==
    /\ steps < MaxSteps
    /\ access # file.access
    /\ file' = [file EXCEPT !.access = access]
    /\ steps' = steps + 1
    /\ UNCHANGED <<path, cache, cacheStat, call, fonttools,
                   inferVars, keyVars, faceVars, parseVars,
                   langVars,
                   validateVars,
                   containerVars,
                   descVars,
                   dumpVars,
                   fcVars,
                   pipeVars,
                   coverVars,
                   raceVars,
                   loadVars>>

Next ==
    \/ \E use_cache \in BOOLEAN : ExtractAllCall(use_cache)
    \/ \E st \in Stats, content \in Contents : WriteFile(st, content)
    \/ \E access \in {"ok", "unreadable", "missing"} : SetAccess(access)

Spec == Init /\ [][Next]_vars

Called == DOMAIN call # {}

\* C2: over any sequence of extract and modify-file operations, every block
\* a call returns was extracted from, or cached under the key of, the (path,
\* mtime, size) the file has at that call; a block cached for another mtime
\* or size of the file is never returned.
C2_NoStaleBlock ==
    (Called /\ fonttools /\ ~call.raised) =>
        /\ Len(call.origin) = Len(call.result)
        /\ \A i \in 1..Len(call.result) :
              /\ call.origin[i] = call.file.st
              /\ i \notin call.hits =>
                    call.result[i] =
                        fonttools_extract_all(path, call.file, EmptyDict,
                                              EmptyDict, FALSE, TRUE).result[i]

\* A call with use_cache=True that extracted afresh although the cache held
\* a different block of the same face for another mtime or size of the file.
C2_Witness ==
    /\ Called /\ fonttools /\ call.use_cache /\ ~call.raised
    /\ call.extracted # <<>>
    /\ \E k \in DOMAIN cache :
          /\ cacheStat[k] # call.file.st
          /\ Loads(cache[k]).val.ttc_index = call.result[1].ttc_index
          /\ Loads(cache[k]).val # call.result[1]

\* The file is a single-face file, or a collection that opens.
HasFaces(f) ==
    detect_font_container(path, f) = "TTC" => ~OpenTTCollection(f).raised

Garbage == [kind |-> "text"]
MalformedTexts ==
    {Garbage, [kind |-> "json", doc |-> [type |-> "null"]],
     [kind |-> "json", doc |-> [type |-> "array", items |-> <<>>]]}

\* The cache file of face ttc_index of the file as it is now gets the text.
CorruptCache(ttc_index, text) ==
    /\ steps < MaxSteps
    /\ file.access # "missing"
    /\ LET key == FontCacheKey(path, file.st, ttc_index)
       IN  /\ cache' = Put(cache, key, text)
           /\ cacheStat' = Put(cacheStat, key, file.st)
    /\ steps' = steps + 1
    /\ UNCHANGED <<path, file, call, fonttools,
                   inferVars, keyVars, faceVars, parseVars,
                   langVars,
                   validateVars,
                   containerVars,
                   descVars,
                   dumpVars,
                   fcVars,
                   pipeVars,
                   coverVars,
                   raceVars,
                   loadVars>>

CorruptNext ==
    \/ Next
    \/ \E i \in 0..(MaxFaces - 1), text \in MalformedTexts :
          CorruptCache(PyInt(i), text)
    \/ \E text \in MalformedTexts : CorruptCache(PyNone, text)

SpecCorrupt == Init /\ [][CorruptNext]_vars

\* C4: a call on a collection that opens with N faces returns N entries
\* whose ttc_index are 0..N-1 in order, whatever faces hit or miss the
\* cache, and every face that missed is written under its own key.
C4_CollectionFaces ==
    [][\A use_cache \in BOOLEAN :
          (/\ ExtractAllCall(use_cache)
           /\ fonttools
           /\ detect_font_container(path, file) = "TTC"
           /\ ~OpenTTCollection(file).raised) =>
          LET N == Len(OpenTTCollection(file).val)
          IN  /\ ~call'.raised
              /\ Len(call'.result) = N
              /\ \A i \in 1..N :
                    /\ IsDict(call'.result[i])
                    /\ "ttc_index" \in DOMAIN call'.result[i]
                    /\ call'.result[i].ttc_index = PyInt(i - 1)
                    /\ i \notin call'.hits =>
                          /\ PyInt(i - 1) \in ToSet(call'.extracted)
                          /\ cache'[FontCacheKey(path, file.st, PyInt(i - 1))]
                                = Dumps(call'.result[i])
      ]_vars

\* C5: when the cache file of a face holds text that does not parse, or
\* JSON that is no object, a call with use_cache=True does not raise,
\* extracts the face again, returns the fresh block and overwrites the
\* cache file with it.
C5_MalformedIsMiss ==
    [][(ExtractAllCall(TRUE) /\ fonttools) =>
          \A i \in 1..Len(call'.keys) :
              LET key == call'.keys[i]
                  malformed == \/ Loads(cache[key]).raised
                               \/ ~IsDict(Loads(cache[key]).val)
                  fresh == fonttools_extract_all(path, file, cache, cacheStat,
                                                 FALSE, fonttools).result[i]
              IN  (key \in DOMAIN cache /\ malformed) =>
                      /\ ~call'.raised
                      /\ i \notin call'.hits
                      /\ call'.result[i] = fresh
                      /\ cache'[key] = Dumps(fresh)
      ]_vars

(***************************************************************************)
(* infer_scripts on a dict with its insertion order                        *)
(*                                                                         *)
(* unicode_blocks is given as the list of its (block, count) items in the  *)
(* order blocks.items() yields them.  scripts_found is kept as the list of *)
(* its members in the order they were added, one of the orders in which    *)
(* iterating the set can yield them.                                       *)
(***************************************************************************)
\* sum(blocks.values())
RECURSIVE SumCounts(_)
SumCounts(its) ==
    IF its = <<>> THEN 0 ELSE Head(its).count + SumCounts(Tail(its))

\* for block, count in blocks.items(): ... scripts_found.add(...)
RECURSIVE ScriptsLoop(_, _, _, _)
ScriptsLoop(its, total, lvl, found) ==
    IF its = <<>> THEN found
    ELSE LET script == BlockScript(Head(its).block)
             add == /\ significant(Head(its).count, total, lvl)
                    /\ script # ""
                    /\ script \notin ToSet(found)
         IN  ScriptsLoop(Tail(its), total, lvl,
                         IF add THEN Append(found, script) ELSE found)

\* list(scripts_found): the members in the order the set yields them.
UnsortedList(found) == found

\* sorted(scripts_found)
SortedList(found) == SortedScripts(ToSet(found))

InferScriptsItems(its, lvl) ==
    LET total == IF SumCounts(its) = 0 THEN 1 ELSE SumCounts(its)
        found == ScriptsLoop(its, total, lvl, <<>>)
    IN  IF its = <<>> THEN FallbackScripts(PyNone)
        ELSE IF "han" \in ToSet(found) THEN Disambiguate(ToSet(found))
        ELSE IF found = <<>> THEN <<"unknown">>
        ELSE SortedList(found)

\* The dict the items make up.
DictOf(its) ==
    [b \in {its[i].block : i \in 1..Len(its)} |->
        its[CHOOSE i \in 1..Len(its) : its[i].block = b].count]

(***************************************************************************)
(* SpecLang: infer_languages on two script lists, or infer_scripts on two  *)
(* insertion orders of one unicode_blocks dict.                            *)
(***************************************************************************)
\* At most this many scripts in a list before it is reordered or doubled.
MaxScripts == 2

\* At most this many blocks in unicode_blocks.
MaxItems == 3

\* Keys of the table, and two identifiers that are no key of it.
ScriptNames == {"latn", "grek", "viet", "unknown", "latin"}

Reverse(s) == [i \in 1..Len(s) |-> s[Len(s) + 1 - i]]

ScriptLists == UNION {[1..n -> ScriptNames] : n \in 0..MaxScripts}

\* Reorderings and duplications of a list.
Variants(s) == {s, Reverse(s), s \o s, s \o Reverse(s)}

ItemBlocks ==
    [b \in {"Basic Latin", "Latin Extended-A", "Greek and Coptic", "Cyrillic",
            "Hiragana", "CJK Unified Ideographs"} |->
        CASE b = "Basic Latin" -> 500
          [] b = "Latin Extended-A" -> 50
          [] b = "Greek and Coptic" -> 100
          [] b = "Cyrillic" -> 3
          [] b = "Hiragana" -> 80
          [] OTHER -> 200]

\* The insertion orders of the dicts with at most MaxItems of the blocks.
ItemLists ==
    {[i \in 1..Len(q) |-> [block |-> q[i], count |-> ItemBlocks[q[i]]]] :
        q \in {r \in UNION {[1..n -> DOMAIN ItemBlocks] : n \in 0..MaxItems} :
                  \A i, j \in 1..Len(r) : i # j => r[i] # r[j]}}

LangInit ==
    /\ \/ /\ \E s \in ScriptLists : \E v \in Variants(s) \cup ScriptLists :
                scriptLists = <<s, v>>
          /\ blockItems = <<>>
       \/ /\ \E a, b \in ItemLists :
                /\ ToSet(a) = ToSet(b)
                /\ blockItems = <<a, b>>
          /\ scriptLists = <<>>
    /\ languageLists = <<>>
    /\ scriptLevel = ""
    /\ scriptsOut = <<>>
    /\ InferIdle /\ KeyIdle /\ FaceIdle /\ ParseIdle /\ CacheIdle /\ ValidateIdle /\ ContainerIdle /\ DescIdle /\ DumpIdle /\ FcIdle /\ PipeIdle /\ CoverIdle /\ RaceIdle /\ LoadIdle

\* infer_languages(scripts), for each of the two lists
InferLanguagesTwice ==
    /\ scriptLists # <<>>
    /\ languageLists = <<>>
    /\ languageLists' = <<infer_languages(scriptLists[1]),
                          infer_languages(scriptLists[2])>>
    /\ UNCHANGED <<scriptLists, blockItems, scriptLevel, scriptsOut,
                   inferVars, keyVars, faceVars, parseVars, cacheVars,
                   validateVars,
                   containerVars,
                   descVars,
                   dumpVars,
                   fcVars,
                   pipeVars,
                   coverVars,
                   raceVars,
                   loadVars>>

\* infer_scripts({"unicode_blocks": blocks}, level), for each of the two dicts
InferScriptsTwice(lvl) ==
    /\ blockItems # <<>>
    /\ scriptsOut = <<>>
    /\ scriptLevel' = lvl
    /\ scriptsOut' = <<InferScriptsItems(blockItems[1], lvl),
                       InferScriptsItems(blockItems[2], lvl)>>
    /\ UNCHANGED <<scriptLists, languageLists, blockItems,
                   inferVars, keyVars, faceVars, parseVars, cacheVars,
                   validateVars,
                   containerVars,
                   descVars,
                   dumpVars,
                   fcVars,
                   pipeVars,
                   coverVars,
                   raceVars,
                   loadVars>>

LangNext ==
    \/ InferLanguagesTwice
    \/ \E lvl \in Levels : InferScriptsTwice(lvl)

SpecLang == LangInit /\ [][LangNext]_vars

\* The position of a language code in sorted order.
LangIndex(l) == CHOOSE i \in 1..Len(LanguageOrder) : LanguageOrder[i] = l

\* C11: infer_languages returns the sorted, duplicate-free union of the
\* table's language lists of the given scripts; a script that is no key of
\* the table adds nothing, so [unknown] and [] give []; [latn] gives a list
\* with en, it and fr, and [latn, grek] one that also has el.
C11_InferLanguages ==
    languageLists # <<>> =>
        \A n \in 1..2 :
            LET s == scriptLists[n]
                out == languageLists[n]
            IN  /\ ToSet(out) =
                      UNION {ToSet(SCRIPT_TO_LANGUAGES[x]) :
                                x \in ToSet(s) \cap DOMAIN SCRIPT_TO_LANGUAGES}
                /\ \A i, j \in 1..Len(out) :
                      i < j => LangIndex(out[i]) < LangIndex(out[j])
                /\ s \in {<<>>, <<"unknown">>} => out = <<>>
                /\ s = <<"latn">> => {"en", "it", "fr"} \subseteq ToSet(out)
                /\ s = <<"latn", "grek">> =>
                      {"en", "it", "fr", "el"} \subseteq ToSet(out)

\* infer_languages([latn, viet]): vi is in both lists and returned once.
C11_Witness ==
    /\ languageLists # <<>>
    /\ scriptLists[1] = <<"latn", "viet">>
    /\ languageLists[1] = <<"de", "en", "es", "fr", "it", "vi">>

\* C13: at a fixed level infer_scripts returns the same list, in the same
\* order, for two coverage blocks whose unicode_blocks have the same
\* contents in different insertion orders, and infer_languages returns the
\* same list for two lists of the same scripts, reordered or repeated.
C13_Determinism ==
    /\ scriptsOut # <<>> =>
          /\ scriptsOut[1] = scriptsOut[2]
          /\ scriptsOut[1] =
                infer_scripts([unicode_blocks |-> DictOf(blockItems[1])],
                              scriptLevel)
    /\ (languageLists # <<>> /\ ToSet(scriptLists[1]) = ToSet(scriptLists[2])) =>
          languageLists[1] = languageLists[2]

\* Two blocks of two scripts inserted in the two orders, both significant.
C13_Witness ==
    /\ scriptsOut # <<>>
    /\ blockItems[1] # blockItems[2]
    /\ scriptsOut[1] = <<"greek", "latin">>
    /\ BlockScript(blockItems[1][1].block) = "latin"
    /\ BlockScript(blockItems[2][1].block) = "greek"

(***************************************************************************)
(* validate_inventory                                                      *)
(*                                                                         *)
(* The document is any JSON value: a dict is a function on its keys, a     *)
(* list is PyList(items), a string is PyStr(text), null is PyNone.         *)
(***************************************************************************)

\* bool(x) of a JSON value
Truthy(x) ==
    IF IsDict(x) THEN DOMAIN x # {}
    ELSE IF x.t = "list" THEN x.items # <<>>
    ELSE IF x.t = "str" THEN x.v # ""
    ELSE FALSE

\* x.get(key, default): AttributeError when x is no dict
GetAttr(x, key, default) ==
    IF IsDict(x) THEN Return(Get(x, key, default))
    ELSE Raise("AttributeError: object has no attribute 'get'")

\* font.get("path") or font.get("file") or font.get("source", {}).get("path")
\* or "<unknown path>"
FontPath(font) ==
    IF Truthy(Get(font, "path", PyNone)) THEN Return(font.path)
    ELSE IF Truthy(Get(font, "file", PyNone)) THEN Return(font.file)
    ELSE LET p == GetAttr(Get(font, "source", EmptyDict), "path", PyNone)
         IN  IF p.raised THEN p
             ELSE IF Truthy(p.val) THEN p
             ELSE Return(PyStr("<unknown path>"))

Validated(raised, count, printed) ==
    [raised |-> raised, val |-> count, printed |-> printed]

\* The loop over enumerate(fonts) from entry idx on (idx counts from 0).
RECURSIVE EntryLoop(_, _, _, _)
EntryLoop(fonts, idx, errors, printed) ==
    IF idx >= Len(fonts)
    THEN Validated(FALSE, errors,
             Append(printed, IF errors = 0 THEN "validation completed"
                             ELSE "validation failed"))
    ELSE
    LET font == fonts[idx + 1]
        family == GetAttr(Get(font, "identity", EmptyDict), "family", PyNone)
        base_names == Get(font, "base_names", PyNone)
    IN  IF ~IsDict(font)
        THEN EntryLoop(fonts, idx + 1, errors + 1,
                 Append(printed, "Font entry #" \o ToString(idx)
                                   \o " is not an object"))
        ELSE IF family.raised THEN Validated(TRUE, errors, printed)
        ELSE IF Truthy(family.val) \/ Truthy(base_names)
        THEN EntryLoop(fonts, idx + 1, errors, printed)
        ELSE IF FontPath(font).raised THEN Validated(TRUE, errors + 1, printed)
        ELSE EntryLoop(fonts, idx + 1, errors + 1,
                 Append(printed, "font entry #" \o ToString(idx)
                                   \o " has no family or base_names"))

validate_inventory(doc) ==
    LET metadata == Get(doc, "metadata", EmptyDict)
        schema_version == GetAttr(metadata, "schema_version", PyNone)
        warned == IF schema_version.val = PyNone
                  THEN <<"Warning: missing schema_version">>
                  ELSE IF schema_version.val # PyStr("1.0")
                  THEN <<"Warning: unknown schema_version">>
                  ELSE <<>>
        fonts == Get(doc, "fonts", PyNone)
    IN  IF ~IsDict(doc)
        THEN Validated(FALSE, 1, <<"Inventory root is not a JSON object">>)
        ELSE IF schema_version.raised THEN Validated(TRUE, 0, <<>>)
        ELSE IF IsDict(fonts) \/ fonts.t # "list"
        THEN Validated(FALSE, 1,
                 Append(warned, "'fonts' field missing or not a list"))
        ELSE EntryLoop(fonts.items, 0, 0, warned)

(***************************************************************************)
(* SpecValidate: validate_inventory on one document.                       *)
(***************************************************************************)
\* At most this many entries in fonts.
MaxEntries == 2

\* A key the dict does not have.
NoKey == [t |-> "absent"]

WithKey(d, key, choice) == IF choice = NoKey THEN d ELSE Put(d, key, choice)

Identities ==
    {NoKey, EmptyDict, [family |-> PyStr("Test Family")],
     [family |-> PyStr("")], PyNone, PyStr("not a dict")}
BaseNames ==
    {NoKey, PyNone, PyList(<<>>), PyList(<<PyStr("Test Family")>>)}

\* Entries with a path, as the tests build them, and entries without one.
Entries ==
    {WithKey(WithKey([path |-> PyStr("/usr/share/fonts/test.ttf")],
                     "identity", i), "base_names", b) :
        i \in Identities, b \in BaseNames}
    \cup {EmptyDict, [source |-> [path |-> PyStr("/tmp/broken.ttf")]],
          [source |-> PyStr("not a dict")], PyStr("not a dict")}

Metadatas2 ==
    {NoKey, EmptyDict, [schema_version |-> PyStr("1.0")],
     [schema_version |-> PyStr("2.0")], PyNone, PyList(<<>>)}
FontsValues ==
    {NoKey, PyNone, PyStr("not a list"), EmptyDict}
    \cup {PyList(q) : q \in UNION {[1..n -> Entries] : n \in 0..MaxEntries}}

Documents ==
    {PyList(<<>>), PyNone}
    \cup {WithKey(WithKey(EmptyDict, "metadata", md), "fonts", f) :
             md \in Metadatas2, f \in FontsValues}

ValidateInit ==
    /\ inventory \in Documents
    /\ validation = <<>>
    /\ InferIdle /\ KeyIdle /\ FaceIdle /\ ParseIdle /\ CacheIdle /\ LangIdle /\ ContainerIdle /\ DescIdle /\ DumpIdle /\ FcIdle /\ PipeIdle /\ CoverIdle /\ RaceIdle /\ LoadIdle

\* exit_code = validate_inventory(data)
ValidateInventory ==
    /\ validation = <<>>
    /\ validation' = validate_inventory(inventory)
    /\ UNCHANGED <<inventory, inferVars, keyVars, faceVars, parseVars,
                   cacheVars, langVars,
                   containerVars,
                   descVars,
                   dumpVars,
                   fcVars,
                   pipeVars,
                   coverVars,
                   raceVars,
                   loadVars>>

ValidateNext == ValidateInventory

SpecValidate == ValidateInit /\ [][ValidateNext]_vars

\* What the claims say about the document.
RootIsMapping == IsDict(inventory)
MetadataIsMapping == IsDict(Get(inventory, "metadata", EmptyDict))
FontsIsList ==
    /\ ~IsDict(Get(inventory, "fonts", PyNone))
    /\ Get(inventory, "fonts", PyNone).t = "list"
HasFamily(font) ==
    /\ IsDict(Get(font, "identity", EmptyDict))
    /\ Truthy(Get(Get(font, "identity", EmptyDict), "family", PyNone))
HasBaseNames(font) == Truthy(Get(font, "base_names", PyNone))

\* C14: validate_inventory never raises, whatever the shape of the
\* document (root, metadata, fonts, an entry or an entry's identity that is
\* null or of the wrong type): it returns a count and prints diagnostics.
C14_NeverRaises ==
    validation # <<>> =>
        /\ ~validation.raised
        /\ validation.printed # <<>>

\* C15: a root that is no mapping, or a fonts value that is missing or no
\* list, returns a positive count; a missing or unrecognized schema_version
\* adds nothing to the count, and an inventory of valid entries without
\* schema_version returns 0.
C15_ValidatorTolerance ==
    validation # <<>> =>
        /\ (~RootIsMapping \/ ~FontsIsList) =>
              (~validation.raised /\ validation.val > 0)
        /\ (RootIsMapping /\ MetadataIsMapping) =>
              LET declared == validate_inventory(
                      Put(inventory, "metadata",
                          [schema_version |-> PyStr("1.0")]))
              IN  /\ validation.raised = declared.raised
                  /\ ~validation.raised => validation.val = declared.val
        /\ (/\ RootIsMapping /\ MetadataIsMapping /\ FontsIsList
            /\ \A i \in 1..Len(inventory.fonts.items) :
                  /\ IsDict(inventory.fonts.items[i])
                  /\ HasFamily(inventory.fonts.items[i])
                  /\ HasBaseNames(inventory.fonts.items[i])) =>
              (~validation.raised /\ validation.val = 0)

\* C16: for a root mapping with a fonts list, validate_inventory returns
\* the number of entries that are no mapping or have neither a non-empty
\* identity.family nor a non-empty base_names; an entry with one of the two
\* (identity missing, empty or null) adds nothing.  Stated for entries
\* whose source, if any, is a mapping.
C16_EntryRule ==
    (/\ validation # <<>> /\ RootIsMapping /\ MetadataIsMapping /\ FontsIsList
     /\ \A i \in 1..Len(inventory.fonts.items) :
           IsDict(inventory.fonts.items[i]) =>
               IsDict(Get(inventory.fonts.items[i], "source", EmptyDict))) =>
        /\ ~validation.raised
        /\ validation.val =
              Cardinality({i \in 1..Len(inventory.fonts.items) :
                  \/ ~IsDict(inventory.fonts.items[i])
                  \/ /\ ~HasFamily(inventory.fonts.items[i])
                     /\ ~HasBaseNames(inventory.fonts.items[i])})

(***************************************************************************)
(* SpecContainer: detect_font_container on one file.                       *)
(***************************************************************************)
\* The magic sequences the function knows and the container of each.
MagicKind ==
    [h \in {"ttcf", "wOFF", "wOF2", "OTTO", "\\x00\\x01\\x00\\x00", "true",
            "typ1"} |->
        CASE h = "ttcf" -> "TTC"
          [] h = "wOFF" -> "WOFF"
          [] h = "wOF2" -> "WOFF2"
          [] h = "OTTO" -> "OTF"
          [] OTHER -> "TTF"]

\* The containers the extensions name.
ExtensionKind ==
    [e \in {".ttf", ".otf", ".ttc", ".woff", ".woff2"} |->
        CASE e = ".ttf" -> "TTF"
          [] e = ".otf" -> "OTF"
          [] e = ".ttc" -> "TTC"
          [] e = ".woff" -> "WOFF"
          [] OTHER -> "WOFF2"]

ProbePaths ==
    {"/w/a.ttf", "/w/a.otf", "/w/a.ttc", "/w/a.woff", "/w/a.woff2",
     "/w/a.TTC", "/w/a.OTF", "/w/a.bin", "/w/a", "/w.ttf/a"}

\* First bytes of the file: the magics, other bytes, a file shorter than a
\* magic.
ProbeHeads == DOMAIN MagicKind \cup {"junk", "tt", ""}

ContainerInit ==
    /\ probed \in [path : ProbePaths,
                   file : [st : {[st_mtime_ns |-> 1, st_size |-> 3]},
                           content : [head : ProbeHeads, faces : {<<>>},
                                      good : {TRUE}],
                           access : {"ok", "unreadable", "missing"}]]
    /\ detected = ""
    /\ InferIdle /\ KeyIdle /\ FaceIdle /\ ParseIdle /\ CacheIdle /\ LangIdle
    /\ ValidateIdle /\ DescIdle /\ DumpIdle /\ FcIdle /\ PipeIdle /\ CoverIdle /\ RaceIdle /\ LoadIdle

\* container = detect_font_container(path)
DetectContainer ==
    /\ detected = ""
    /\ detected' = detect_font_container(probed.path, probed.file)
    /\ UNCHANGED <<probed, inferVars, keyVars, faceVars, parseVars, cacheVars,
                   langVars, validateVars,
                   descVars,
                   dumpVars,
                   fcVars,
                   pipeVars,
                   coverVars,
                   raceVars,
                   loadVars>>

ContainerNext == DetectContainer

SpecContainer == ContainerInit /\ [][ContainerNext]_vars

\* C19: when the first four bytes are a known magic the result is the
\* container of that magic, whatever the extension; the extension decides
\* only when the header cannot be read or is no magic, and UNKNOWN is
\* returned only when neither decides.
C19_MagicFirst ==
    detected # "" =>
        LET head == ReadHead(probed.file)
            ext == Lower(Suffix(probed.path))
        IN  /\ head \in DOMAIN MagicKind => detected = MagicKind[head]
            /\ (head \notin DOMAIN MagicKind /\ ext \in DOMAIN ExtensionKind) =>
                  detected = ExtensionKind[ext]
            /\ detected = "UNKNOWN" <=>
                  (head \notin DOMAIN MagicKind /\ ext \notin DOMAIN ExtensionKind)

(***************************************************************************)
(* build_font_descriptor                                                   *)
(*                                                                         *)
(* In a descriptor a value that may be None is PyNone, PyInt(n) or         *)
(* PyStr(text); in a face block the values are as the extractor leaves     *)
(* them.                                                                   *)
(***************************************************************************)
NAME_ID_FAMILY == 1
NAME_ID_SUBFAMILY == 2
NAME_ID_FULLNAME == 4
NAME_ID_POSTSCRIPT == 6
NAME_ID_LICENSE == 13
NAME_ID_LICENSE_URL == 14

\* The first code point of the emoji range in classify_font.
EmojiStart == 127744

\* str.strip()
RECURSIVE Strip(_)
Strip(str) ==
    IF Len(str) = 0 THEN str
    ELSE IF SubSeq(str, 1, 1) = " " THEN Strip(SubSeq(str, 2, Len(str)))
    ELSE IF SubSeq(str, Len(str), Len(str)) = " "
    THEN Strip(SubSeq(str, 1, Len(str) - 1))
    ELSE str

\* The loop of _best_name over vals[i..].
RECURSIVE BestNameLoop(_, _)
BestNameLoop(vals, i) ==
    IF i > Len(vals) THEN PyNone
    ELSE IF vals[i] # "" /\ Strip(vals[i]) # "" THEN PyStr(Strip(vals[i]))
    ELSE BestNameLoop(vals, i + 1)

\* _best_name(names, name_id)
BestName(names, name_id) == BestNameLoop(Get(names, ToString(name_id), <<>>), 1)

\* d.get(key) of an int, a str
OptInt(d, key) == IF key \in DOMAIN d THEN PyInt(d[key]) ELSE PyNone
OptStr(d, key) == IF key \in DOMAIN d THEN PyStr(d[key]) ELSE PyNone

\* bool(x) of an int or None
TruthyInt(x) == x # PyNone /\ x.v # 0

\* A variant in which every color font is an emoji font.
ClassifyFontColorOnly(format_block, unicode_max) ==
    [is_variable |-> format_block.variable,
     is_color |-> format_block.color,
     is_decorative |-> format_block.decorative,
     is_emoji |-> format_block.color,
     container |-> format_block.container,
     font_type |-> format_block.font_type]

classify_font(format_block, unicode_max) ==
    LET color == format_block.color
    IN  [is_variable |-> format_block.variable,
         is_color |-> color,
         is_decorative |-> format_block.decorative,
         is_emoji |-> color /\ TruthyInt(unicode_max)
                      /\ unicode_max.v >= EmojiStart,
         container |-> format_block.container,
         font_type |-> format_block.font_type]

\* A variant in which the enrichment alone decides the color flag.
ColorFlagEnrichmentOnly(fc_color, color_tables) == fc_color

\* color = bool(fc_color or len(color_tables) > 0)
ColorFlag(fc_color, color_tables) == fc_color \/ Len(color_tables) > 0

\* variable = bool(variable_flags.get("fvar") or variable_flags.get("STAT")
\*                 or fc_variable)
VariableFlag(variable_flags, fc_variable) ==
    \/ Get(variable_flags, "fvar", FALSE)
    \/ Get(variable_flags, "STAT", FALSE)
    \/ fc_variable

\* The body of build_font_descriptor on a fonttools that is a dict;
\* fontconfig is None or a dict.
DescriptorOf(p, f, platform_name, ft, fc) ==
    LET names0 == Get(ft, "names", EmptyDict)
        names == IF IsDict(names0) THEN names0 ELSE EmptyDict
        enriched == fc # PyNone /\ DOMAIN fc # {}
        languages == IF enriched THEN Get(fc, "languages", <<>>) ELSE <<>>
        scripts == IF enriched THEN Get(fc, "scripts", <<>>) ELSE <<>>
        charset == IF enriched THEN OptStr(fc, "charset") ELSE PyNone
        decorative == enriched /\ Get(fc, "decorative", FALSE)
        fc_color == enriched /\ Get(fc, "color", FALSE)
        fc_variable == enriched /\ Get(fc, "variable", FALSE)
        container == PyStr(Get(ft, "container", detect_font_container(p, f)))
        font_type == PyStr(Get(ft, "font_type", "Unknown"))
        variable_flags == Get(ft, "variable", EmptyDict)
        variable == VariableFlag(variable_flags, fc_variable)
        color_tables == Get(ft, "color_tables", <<>>)
        color == ColorFlag(fc_color, color_tables)
        unicode_block == Get(ft, "unicode", EmptyDict)
        unicode_max == Get(unicode_block, "max", PyNone)
        os2 == Get(ft, "os2", EmptyDict)
        readable == IsDict(os2) /\ "error" \notin DOMAIN os2
        format_block ==
            [container |-> container,
             font_type |-> font_type,
             ttc_index |-> Get(ft, "ttc_index", PyNone),
             ttc_count |-> OptInt(ft, "ttc_count"),
             variable |-> variable,
             color |-> color,
             decorative |-> decorative]
    IN  [identity |->
             [file |-> p,
              ttc_index |-> Get(ft, "ttc_index", PyNone),
              family |-> BestName(names, NAME_ID_FAMILY),
              style |-> BestName(names, NAME_ID_SUBFAMILY),
              fullname |-> BestName(names, NAME_ID_FULLNAME),
              postscript_name |-> BestName(names, NAME_ID_POSTSCRIPT)],
         platform |-> [name |-> platform_name],
         format |-> format_block,
         coverage |->
             [unicode |-> [count |-> Get(unicode_block, "count", 0),
                           min |-> Get(unicode_block, "min", PyNone),
                           max |-> unicode_max],
              unicode_blocks |->
                  IF IsDict(Get(ft, "unicode_blocks", PyNone))
                  THEN ft.unicode_blocks ELSE EmptyDict,
              scripts |-> scripts,
              languages |-> languages,
              charset |-> charset],
         typography |->
             [weight_class |-> IF readable THEN OptInt(os2, "weight_class")
                               ELSE PyNone,
              width_class |-> IF readable THEN OptInt(os2, "width_class")
                              ELSE PyNone,
              opentype_features |-> Get(ft, "opentype_features", <<>>)],
         classification |-> classify_font(format_block, unicode_max),
         license |-> [text |-> BestName(names, NAME_ID_LICENSE),
                      url |-> BestName(names, NAME_ID_LICENSE_URL)],
         vendor |-> IF readable THEN OptStr(os2, "vendor_id") ELSE PyNone,
         embedding_rights |-> IF readable THEN OptInt(os2, "embedding_rights")
                              ELSE PyNone,
         source |->
             [fonttools |-> [ok |-> Get(ft, "ok", FALSE),
                             error |-> OptStr(ft, "error")],
              fontconfig |-> IF fc = PyNone THEN PyNone ELSE [ok |-> TRUE]]]

\* The keys of a face block build_font_descriptor reads.
FonttoolsKeys ==
    {"names", "os2", "unicode", "unicode_blocks", "variable", "color_tables",
     "opentype_features", "container", "font_type", "ttc_index", "ok", "error"}

\* A variant that reads the block by fonttools[key]: KeyError on an
\* absent key.
BuildFontDescriptorIndexing(p, f, platform_name, ft, fc) ==
    IF ~IsDict(ft)
    THEN Raise("TypeError: object is not subscriptable")
    ELSE IF FonttoolsKeys \ DOMAIN ft # {}
    THEN Raise("KeyError")
    ELSE Return(DescriptorOf(p, f, platform_name, ft, fc))

\* build_font_descriptor(font_path, platform_name, fonttools, fontconfig):
\* fonttools.get raises when fonttools is no dict.
build_font_descriptor(p, f, platform_name, ft, fc) ==
    IF ~IsDict(ft)
    THEN Raise("AttributeError: object has no attribute 'get'")
    ELSE Return(DescriptorOf(p, f, platform_name, ft, fc))

(***************************************************************************)
(* SpecDescriptor: build_font_descriptor on one face block from which any  *)
(* keys are missing, with and without FontConfig enrichment.               *)
(***************************************************************************)
\* A block with every key, as _fonttools_extract_from_tt and the error
\* paths of fonttools_extract_all fill them.
FullBlock ==
    [ok |-> TRUE,
     container |-> "TTF",
     ttc_index |-> PyInt(0),
     ttc_count |-> 1,
     font_type |-> "TrueType",
     names |-> [id \in {"1", "2", "4", "13"} |->
                   CASE id = "1" -> <<"  ", " Noto Color ">>
                     [] id = "2" -> <<"Regular">>
                     [] id = "4" -> <<"Noto Color Regular">>
                     [] OTHER -> <<"OFL">>],
     os2 |-> [weight_class |-> 400, width_class |-> 5, embedding_rights |-> 0,
              vendor_id |-> "GOOG", version |-> 4],
     unicode |-> [count |-> 2, min |-> PyInt(65), max |-> PyInt(128512)],
     unicode_blocks |-> [b \in {"Basic Latin"} |-> 1],
     variable |-> [fvar |-> TRUE, STAT |-> FALSE],
     color_tables |-> <<"COLR", "CPAL">>,
     opentype_features |-> <<"liga">>,
     error |-> "name: bad table"]

\* What fc_query_extract returns for a font with every property.
FullEnrichment ==
    [languages |-> <<"en", "it">>,
     scripts |-> <<"latn">>,
     charset |-> "charset: 20-7e",
     decorative |-> TRUE,
     color |-> TRUE,
     variable |-> TRUE]

FontconfigKeys == DOMAIN FullEnrichment

\* d without the keys in absent
Without(d, absent) == [k \in DOMAIN d \ absent |-> d[k]]

\* Blocks with every key: the largest code point below, at and above the
\* start of the emoji range or missing, with and without color tables, with
\* each combination of fvar and STAT.
VariantBlocks ==
    {[FullBlock EXCEPT !.unicode = summary, !.color_tables = tables,
                       !.variable = flags] :
        summary \in {[count |-> 0, min |-> PyNone, max |-> PyNone]}
                    \cup {[count |-> 2, min |-> PyInt(65), max |-> PyInt(top)] :
                             top \in {255, EmojiStart - 1, EmojiStart}},
        tables \in {<<>>, <<"COLR">>},
        flags \in [fvar : BOOLEAN, STAT : BOOLEAN]}

DescBlocks ==
    {Without(FullBlock, absent) : absent \in SUBSET FonttoolsKeys}
    \cup VariantBlocks

\* What fc_query_extract returns for a font with no property and without
\* include_charset (charset None).
PlainEnrichment ==
    [languages |-> <<>>, scripts |-> <<>>, decorative |-> FALSE,
     color |-> FALSE, variable |-> FALSE]

DescEnrichments ==
    {PyNone, PlainEnrichment}
    \cup {Without(FullEnrichment, absent) : absent \in SUBSET FontconfigKeys}

DescInit ==
    /\ descArgs \in [path : {"/w/a.otf"},
                     file : {[st |-> [st_mtime_ns |-> 1, st_size |-> 3],
                              content |-> [head |-> "OTTO", faces |-> <<>>,
                                           good |-> TRUE],
                              access |-> "ok"]},
                     fonttools : DescBlocks,
                     fontconfig : DescEnrichments]
    /\ descResult = EmptyDict
    /\ InferIdle /\ KeyIdle /\ FaceIdle /\ ParseIdle /\ CacheIdle /\ LangIdle
    /\ ValidateIdle /\ ContainerIdle /\ DumpIdle /\ FcIdle /\ PipeIdle /\ CoverIdle /\ RaceIdle /\ LoadIdle

\* desc = build_font_descriptor(font_path, platform_name, face, fontconfig)
BuildDescriptor ==
    /\ descResult = EmptyDict
    /\ descResult' = build_font_descriptor(descArgs.path, descArgs.file, "linux",
                                           descArgs.fonttools,
                                           descArgs.fontconfig)
    /\ UNCHANGED <<descArgs, inferVars, keyVars, faceVars, parseVars, cacheVars,
                   langVars, validateVars, containerVars, dumpVars,
                   fcVars,
                   pipeVars,
                   coverVars,
                   raceVars,
                   loadVars>>

DescNext == BuildDescriptor

SpecDescriptor == DescInit /\ [][DescNext]_vars

\* The key is missing from the fonttools block, from the enrichment.
Missing(key) == key \notin DOMAIN descArgs.fonttools
Unenriched(key) ==
    \/ descArgs.fontconfig = PyNone
    \/ key \notin DOMAIN descArgs.fontconfig

\* The enrichment asserts the flag.
Declared(key) ==
    /\ descArgs.fontconfig # PyNone
    /\ Get(descArgs.fontconfig, key, FALSE)

\* The defaults of the fields of d on which the claim as stated and the
\* code agree: null, false or an empty collection.
EmptyDefaults(d) ==
    /\ Missing("names") =>
          /\ d.identity.family = PyNone /\ d.identity.style = PyNone
          /\ d.identity.fullname = PyNone
          /\ d.identity.postscript_name = PyNone
          /\ d.license = [text |-> PyNone, url |-> PyNone]
    /\ Missing("os2") =>
          /\ d.typography.weight_class = PyNone
          /\ d.typography.width_class = PyNone
          /\ d.vendor = PyNone /\ d.embedding_rights = PyNone
    /\ Missing("unicode") =>
          /\ d.coverage.unicode.min = PyNone
          /\ d.coverage.unicode.max = PyNone
          /\ ~d.classification.is_emoji
    /\ Missing("unicode_blocks") => d.coverage.unicode_blocks = EmptyDict
    /\ Missing("variable") =>
          /\ d.format.variable = Declared("variable")
          /\ d.classification.is_variable = Declared("variable")
    /\ Missing("color_tables") =>
          /\ d.format.color = Declared("color")
          /\ d.classification.is_color = Declared("color")
    /\ Missing("opentype_features") => d.typography.opentype_features = <<>>
    /\ Missing("ttc_index") =>
          /\ d.identity.ttc_index = PyNone /\ d.format.ttc_index = PyNone
    /\ Missing("ok") => d.source.fonttools.ok = FALSE
    /\ Missing("error") => d.source.fonttools.error = PyNone
    /\ Unenriched("languages") => d.coverage.languages = <<>>
    /\ Unenriched("scripts") => d.coverage.scripts = <<>>
    /\ Unenriched("charset") => d.coverage.charset = PyNone
    /\ Unenriched("decorative") =>
          /\ d.format.decorative = FALSE
          /\ d.classification.is_decorative = FALSE
    /\ descArgs.fontconfig = PyNone => d.source.fontconfig = PyNone

\* C20 as stated: build_font_descriptor returns a descriptor without
\* raising whatever keys of the fonttools block and of fontconfig are
\* absent, and every absent value, container and font_type among them, is
\* null, false or an empty collection in the descriptor.
C20_AllDefaultsEmpty ==
    descResult # EmptyDict =>
        /\ ~descResult.raised
        /\ EmptyDefaults(descResult.val)
        /\ Missing("container") => descResult.val.format.container = PyNone
        /\ Missing("font_type") => descResult.val.format.font_type = PyNone

\* C20, amended: build_font_descriptor returns a descriptor without raising
\* whatever keys of the fonttools block and of fontconfig are absent; an
\* absent value is null, false or an empty collection in the descriptor,
\* except that an absent font_type is "Unknown", an absent container is the
\* container detect_font_container finds for the file, and the code point
\* count of an absent unicode summary is 0.
C20_Total ==
    descResult # EmptyDict =>
        /\ ~descResult.raised
        /\ EmptyDefaults(descResult.val)
        /\ Missing("container") =>
              /\ descResult.val.format.container =
                     PyStr(detect_font_container(descArgs.path, descArgs.file))
              /\ descResult.val.classification.container =
                     descResult.val.format.container
        /\ Missing("font_type") =>
              /\ descResult.val.format.font_type = PyStr("Unknown")
              /\ descResult.val.classification.font_type = PyStr("Unknown")
        /\ Missing("unicode") => descResult.val.coverage.unicode.count = 0

\* A descriptor was built from a block with none of the keys and no
\* enrichment.
C20_Witness ==
    /\ descResult # EmptyDict
    /\ ~descResult.raised
    /\ FonttoolsKeys \cap DOMAIN descArgs.fonttools = {}
    /\ descArgs.fontconfig = PyNone
    /\ descResult.val.format.font_type = PyStr("Unknown")
    /\ descResult.val.format.container = PyStr("OTF")

(***************************************************************************)
(* main of dump_fonts: the extraction pipeline                             *)
(*                                                                         *)
(* A discovered file is [path, file].  The state of the loop is acc:       *)
(* raised (an exception left main), fonts (inventory["fonts"]), counts     *)
(* (the entries appended for each file processed) and the cache directory. *)
(***************************************************************************)
\* fontconfig of one file: None off Linux and when fc_query_extract raises.
FcQuery(fcq) == IF fcq = "ok" THEN FullEnrichment ELSE PyNone

\* The except branch of the extraction: r is what fonttools_extract_all
\* did; when it raised, faces is the block main builds.
OrExtractionFailed(p, f, r) ==
    IF r.raised
    THEN [r EXCEPT !.result =
             <<[ok |-> FALSE,
                container |-> detect_font_container(p, f),
                ttc_index |-> PyNone,
                error |-> "Extraction failed: " \o Stat(f).msg]>>]
    ELSE r

\* faces = fonttools_extract_all(...) inside try
ExtractFaces(p, f, ch, chStat, use_cache, available) ==
    OrExtractionFailed(p, f,
        fonttools_extract_all(p, f, ch, chStat, use_cache, available))

\* The body of the loop over faces: desc is what build_font_descriptor did;
\* face.get in the except branch raises when face is no dict.
AppendDescriptor(p, face, desc, acc) ==
    IF ~desc.raised THEN [acc EXCEPT !.fonts = Append(@, desc.val)]
    ELSE IF GetAttr(face, "ttc_index", PyNone).raised
    THEN [acc EXCEPT !.raised = TRUE]
    ELSE [acc EXCEPT !.fonts = Append(@,
             [identity |-> [file |-> p,
                            ttc_index |-> GetAttr(face, "ttc_index", PyNone).val],
              error |-> "Descriptor build failed: " \o desc.msg])]

\* The loop over faces[i..] of one file.
RECURSIVE DescriptorLoop(_, _, _, _, _, _, _)
DescriptorLoop(p, f, platform_name, fc, faces, i, acc) ==
    IF i > Len(faces) \/ acc.raised THEN acc
    ELSE DescriptorLoop(p, f, platform_name, fc, faces, i + 1,
             AppendDescriptor(p, faces[i],
                 build_font_descriptor(p, f, platform_name, faces[i], fc),
                 acc))

\* The body of the loop over font_files: r is the extraction of the file,
\* built the state after its descriptors.
AfterFile(acc, r, built) ==
    [raised |-> built.raised,
     fonts |-> built.fonts,
     counts |-> Append(acc.counts, Len(built.fonts) - Len(acc.fonts)),
     cache |-> r.cache,
     cacheStat |-> r.cacheStat]

BuildFile(p, f, fcq, acc, r) ==
    AfterFile(acc, r,
        DescriptorLoop(p, f, IF fcq = "off" THEN "windows" ELSE "linux",
                       FcQuery(fcq), r.result, 1,
                       [raised |-> FALSE, fonts |-> acc.fonts]))

\* The loop over font_files[i..].
RECURSIVE FileLoop(_, _, _, _, _, _)
FileLoop(files, i, use_cache, available, fcq, acc) ==
    IF i > Len(files) \/ acc.raised THEN acc
    ELSE FileLoop(files, i + 1, use_cache, available, fcq,
             BuildFile(files[i].path, files[i].file, fcq, acc,
                 ExtractFaces(files[i].path, files[i].file, acc.cache,
                              acc.cacheStat, use_cache, available)))

\* main: inventory["fonts"] starts empty and the loop appends to it.
DumpMain(files, ch, chStat, use_cache, available, fcq) ==
    FileLoop(files, 1, use_cache, available, fcq,
             [raised |-> FALSE, fonts |-> <<>>, counts |-> <<>>,
              cache |-> ch, cacheStat |-> chStat])

(***************************************************************************)
(* SpecDump: dump runs over a list of discovered files, sharing the cache  *)
(* directory.                                                              *)
(***************************************************************************)
\* At most this many discovered files.
MaxFiles == 2

\* At most this many dump runs.
MaxDumps == 2

\* get_installed_font_files returns sorted(set of resolved paths).
DumpPaths == <<"/w/a.ttf", "/w/b.ttf">>

\* A face with a family name, a style, two code points; bad are the tables
\* that cannot be parsed.
DumpFace(family, bad) ==
    Face({"glyf"},
         [has |-> TRUE,
          tbl |-> <<[nameID |-> 1, unicodeOk |-> TRUE, unicode |-> family,
                     strOk |-> TRUE, str |-> family],
                    [nameID |-> 2, unicodeOk |-> TRUE, unicode |-> "Regular",
                     strOk |-> TRUE, str |-> "Regular"]>>],
         Absent,
         [has |-> TRUE, tbl |-> <<[isUnicode |-> TRUE, cmap |-> {65, 66}]>>],
         Absent, Absent, bad)

\* The families of the faces of a collection, in face order.
CollectionFamily(i) == IF i % 2 = 1 THEN "Zeta" ELSE "Alpha"

\* Files that open: a single face, a single face whose name table cannot be
\* parsed, a collection of no face or of MaxFaces faces; and a file that is
\* no font.
DumpContents ==
    {[head |-> "OTTO", faces |-> <<DumpFace(family, {})>>, good |-> TRUE] :
        family \in {"Alpha", "Zeta"}}
    \cup {[head |-> "OTTO", faces |-> <<DumpFace("Alpha", {"name"})>>,
           good |-> TRUE]}
    \cup {[head |-> "ttcf",
           faces |-> [i \in 1..n |-> DumpFace(CollectionFamily(i), {})],
           good |-> TRUE] : n \in {0, MaxFaces}}
    \cup {[head |-> "junk", faces |-> <<>>, good |-> FALSE]}

\* The file behind a path: readable, or one that cannot be opened or
\* stat-ed.
DumpFiles ==
    [st : {[st_mtime_ns |-> 1, st_size |-> 3]}, content : DumpContents,
     access : {"ok"}]
    \cup [st : {[st_mtime_ns |-> 1, st_size |-> 3]},
          content : {[head |-> "junk", faces |-> <<>>, good |-> FALSE]},
          access : {"unreadable", "missing"}]

\* The lists get_installed_font_files may return: distinct paths in sorted
\* order.
FileLists ==
    UNION {[1..n -> [path : ToSet(DumpPaths), file : DumpFiles]] :
              n \in 0..MaxFiles}

PathIndex(p) == CHOOSE i \in 1..Len(DumpPaths) : DumpPaths[i] = p

DumpInit ==
    /\ fontFiles \in {fl \in FileLists :
          \A i \in 1..Len(fl) - 1 :
              PathIndex(fl[i].path) < PathIndex(fl[i + 1].path)}
    /\ dumpCache = [cache |-> EmptyDict, cacheStat |-> EmptyDict]
    /\ dumpRun = <<>>
    /\ InferIdle /\ KeyIdle /\ FaceIdle /\ ParseIdle /\ CacheIdle /\ LangIdle
    /\ ValidateIdle /\ ContainerIdle /\ DescIdle /\ FcIdle /\ PipeIdle /\ CoverIdle /\ RaceIdle /\ LoadIdle

\* One run of main: args.no_cache, FONTTOOLS_AVAILABLE and what
\* fc_query_extract does on this host ("off": not Linux, "raises", "ok");
\* the host is the same in every run.
DumpRun(use_cache, available, fcq) ==
    /\ Len(dumpRun) < MaxDumps
    /\ dumpRun # <<>> =>
          /\ available = dumpRun[1].available
          /\ fcq = dumpRun[1].fcq
    /\ \E r \in {DumpMain(fontFiles, dumpCache.cache, dumpCache.cacheStat,
                          use_cache, available, fcq)} :
           /\ dumpCache' = [cache |-> r.cache, cacheStat |-> r.cacheStat]
           /\ dumpRun' = Append(dumpRun,
                  [use_cache |-> use_cache, available |-> available,
                   fcq |-> fcq, before |-> dumpCache, raised |-> r.raised,
                   fonts |-> r.fonts, counts |-> r.counts])
    /\ UNCHANGED <<fontFiles, inferVars, keyVars, faceVars, parseVars,
                   cacheVars, langVars, validateVars, containerVars, descVars,
                   fcVars,
                   pipeVars,
                   coverVars,
                   raceVars,
                   loadVars>>

DumpNext ==
    \E use_cache \in BOOLEAN, available \in BOOLEAN,
       fcq \in {"off", "raises", "ok"} : DumpRun(use_cache, available, fcq)

SpecDump == DumpInit /\ [][DumpNext]_vars

\* The strings of the model in the order sorted() puts them.
StringOrder ==
    <<"", "/w/a.ttf", "/w/b.ttf", "Alpha", "Regular", "Zeta">>

StringRank(str) == CHOOSE i \in 1..Len(StringOrder) : StringOrder[i] = str

\* The sort key (family, style, file, ttc_index) of an entry as integers;
\* None sorts first.
SortKey(entry) ==
    LET name(key) == IF key \in DOMAIN entry.identity
                        /\ entry.identity[key] # PyNone
                     THEN StringRank(entry.identity[key].v) ELSE 0
    IN  <<name("family"), name("style"), StringRank(entry.identity.file),
          IF entry.identity.ttc_index = PyNone THEN -1
          ELSE entry.identity.ttc_index.v>>

\* a <= b on tuples of integers of the same length
RECURSIVE TupleLeq(_, _)
TupleLeq(a, b) ==
    IF Len(a) = 0 THEN TRUE
    ELSE IF a[1] # b[1] THEN a[1] < b[1]
    ELSE TupleLeq(Tail(a), Tail(b))

\* C17: the fonts list of a dump run is sorted by (identity.family,
\* identity.style, identity.file, identity.ttc_index).
C17_SortedInventory ==
    \A r \in 1..Len(dumpRun) :
        ~dumpRun[r].raised =>
            \A i \in 1..Len(dumpRun[r].fonts) - 1 :
                TupleLeq(SortKey(dumpRun[r].fonts[i]),
                         SortKey(dumpRun[r].fonts[i + 1]))

\* The file cannot be stat-ed, opened or parsed.
Failing(fl) ==
    \/ fl.file.access # "ok"
    \/ ~fl.file.content.good
    \/ \E k \in 1..Len(fl.file.content.faces) :
          fl.file.content.faces[k].bad # {}

\* The entry carries an error annotation.
Annotated(entry) ==
    \/ "error" \in DOMAIN entry
    \/ /\ entry.source.fonttools.ok = FALSE
       /\ entry.source.fonttools.error # PyNone

\* The entries run appended for the file number i.
RECURSIVE SumSeq(_)
SumSeq(seq) == IF seq = <<>> THEN 0 ELSE Head(seq) + SumSeq(Tail(seq))

EntriesOf(run, i) ==
    LET start == SumSeq(SubSeq(run.counts, 1, i - 1))
    IN  SubSeq(run.fonts, start + 1, start + run.counts[i])

\* C18: a dump run processes every file in order and never aborts, appends
\* at least one entry per file, entries of failing files carry an error
\* annotation, and the entries of a file are those a run over that file
\* alone gives.
C18_PartialSuccess ==
    \A r \in 1..Len(dumpRun) :
        LET run == dumpRun[r]
        IN  /\ ~run.raised
            /\ Len(run.counts) = Len(fontFiles)
            /\ \A i \in 1..Len(fontFiles) :
                  /\ run.counts[i] >= 1
                  /\ \A k \in 1..run.counts[i] :
                        EntriesOf(run, i)[k].identity.file = fontFiles[i].path
                  /\ Failing(fontFiles[i]) =>
                        \A k \in 1..run.counts[i] :
                            Annotated(EntriesOf(run, i)[k])
                  /\ EntriesOf(run, i) =
                        DumpMain(<<fontFiles[i]>>, run.before.cache,
                                 run.before.cacheStat, run.use_cache,
                                 run.available, run.fcq).fonts

\* What fontTools says of the face given to build_font_descriptor.
HasColorTables ==
    /\ "color_tables" \in DOMAIN descArgs.fonttools
    /\ descArgs.fonttools.color_tables # <<>>
HasVariationTables ==
    /\ "variable" \in DOMAIN descArgs.fonttools
    /\ \/ descArgs.fonttools.variable.fvar
       \/ descArgs.fonttools.variable.STAT

\* C21: the color flag of the descriptor is true exactly when the
\* enrichment says color or the face has a color table, the variable flag
\* exactly when the enrichment says variable or the face has fvar or STAT;
\* with the enrichment absent or its flag false the flag is the fontTools
\* value.
C21_FlagsAreOred ==
    descResult # EmptyDict /\ ~descResult.raised =>
        LET d == descResult.val
        IN  /\ d.format.color <=> (Declared("color") \/ HasColorTables)
            /\ d.format.variable <=> (Declared("variable") \/ HasVariationTables)
            /\ ~Declared("color") => (d.format.color <=> HasColorTables)
            /\ ~Declared("variable") =>
                  (d.format.variable <=> HasVariationTables)

\* A descriptor whose color flag comes from the color tables alone, the
\* enrichment being present with both flags false, and whose variable flag
\* comes from STAT alone.
C21_Witness ==
    /\ descResult # EmptyDict
    /\ ~descResult.raised
    /\ descArgs.fontconfig = PlainEnrichment
    /\ HasColorTables
    /\ HasVariationTables
    /\ ~descArgs.fonttools.variable.fvar
    /\ descResult.val.format.color
    /\ descResult.val.format.variable

\* C22: is_emoji of the descriptor is true exactly when its color flag is
\* true and coverage.unicode.max is a code point of at least 0x1F300; it is
\* false when unicode.max is null.
C22_EmojiRule ==
    descResult # EmptyDict /\ ~descResult.raised =>
        LET d == descResult.val
            top == d.coverage.unicode.max
        IN  /\ d.classification.is_emoji <=>
                  (d.format.color /\ top # PyNone /\ top.v >= 127744)
            /\ top = PyNone => ~d.classification.is_emoji

\* A color font whose largest code point is one below the emoji range, and
\* is no emoji font.
C22_Witness ==
    /\ descResult # EmptyDict
    /\ ~descResult.raised
    /\ descResult.val.format.color
    /\ descResult.val.coverage.unicode.max = PyInt(127743)
    /\ ~descResult.val.classification.is_emoji

(***************************************************************************)
(* fc_query_extract: the FontConfig enrichment parsed from the text that   *)
(* fc-query prints.  raw is the output as raw.splitlines() yields it.      *)
(***************************************************************************)

\* str.split(sep) for a one-character separator
RECURSIVE SplitOn(_, _)
SplitOn(str, sep) ==
    LET hits == {i \in 1..Len(str) : SubSeq(str, i, i) = sep}
    IN  IF hits = {} THEN <<str>>
        ELSE LET i == CHOOSE h \in hits : \A g \in hits : h <= g
             IN  <<SubSeq(str, 1, i - 1)>>
                   \o SplitOn(SubSeq(str, i + 1, Len(str)), sep)

\* str.split(): the runs between blanks
SplitWords(str) == SelectSeq(SplitOn(str, " "), LAMBDA w : w # "")

\* str.replace(c, "") for a one-character c
RECURSIVE RemoveChar(_, _)
RemoveChar(str, c) ==
    IF Len(str) = 0 THEN ""
    ELSE (IF SubSeq(str, 1, 1) = c THEN "" ELSE SubSeq(str, 1, 1))
           \o RemoveChar(SubSeq(str, 2, Len(str)), c)

\* "\n".join(lines)
RECURSIVE JoinLines(_, _)
JoinLines(lines, sep) ==
    IF Len(lines) = 0 THEN ""
    ELSE IF Len(lines) = 1 THEN lines[1]
    ELSE lines[1] \o sep \o JoinLines(Tail(lines), sep)

\* The code points of the characters the modelled tags are made of, in
\* the order Python compares them.
CodePoints == "ABCDEFGHIJKLMNOPQRSTUVWXYZabcdefghijklmnopqrstuvwxyz"

Ord(c) == CHOOSE i \in 1..Len(CodePoints) : SubSeq(CodePoints, i, i) = c

\* a < b on str
RECURSIVE StrLess(_, _)
StrLess(a, b) ==
    IF Len(b) = 0 THEN FALSE
    ELSE IF Len(a) = 0 THEN TRUE
    ELSE IF SubSeq(a, 1, 1) # SubSeq(b, 1, 1)
    THEN Ord(SubSeq(a, 1, 1)) < Ord(SubSeq(b, 1, 1))
    ELSE StrLess(SubSeq(a, 2, Len(a)), SubSeq(b, 2, Len(b)))

\* sorted(set(items))
RECURSIVE SortedStrSet(_)
SortedStrSet(S) ==
    IF S = {} THEN <<>>
    ELSE LET least == CHOOSE a \in S : \A b \in S \ {a} : StrLess(a, b)
         IN  <<least>> \o SortedStrSet(S \ {least})

\* _find_line: the payload of the first line starting with prefix, or None
FindLine(raw, prefix) ==
    LET hits == {i \in 1..Len(raw) : StartsWith(raw[i], prefix)}
    IN  IF hits = {} THEN PyNone
        ELSE LET i == CHOOSE h \in hits : \A g \in hits : h <= g
             IN  PyStr(Strip(SubSeq(raw[i], Len(prefix) + 1, Len(raw[i]))))

\* languages = [x.strip() for x in lang.split("|") if x.strip()]
FcLanguages(lang) ==
    IF lang = PyNone \/ lang.v = "" THEN <<>>
    ELSE LET items == SplitOn(lang.v, "|")
         IN  SelectSeq([i \in 1..Len(items) |-> Strip(items[i])],
                       LAMBDA x : x # "")

\* A flag that compares the payload with "true" as printed
FcFlagExact(payload) == payload # PyNone /\ payload.v = "true"

\* (_find_line(prefix) or "").strip().lower() == "true"
FcFlag(payload) ==
    Lower(Strip(IF payload = PyNone \/ payload.v = "" THEN "" ELSE payload.v))
        = "true"

\* The scripts collected from the capability line, without the final sort
FcScriptsUnsorted(capability) ==
    IF capability = PyNone \/ capability.v = "" THEN <<>>
    ELSE LET tokens == SelectSeq(SplitWords(RemoveChar(capability.v, "\"")),
                                 LAMBDA t : StartsWith(t, "otlayout:"))
         IN  [i \in 1..Len(tokens) |->
                 SubSeq(tokens[i], Len("otlayout:") + 1, Len(tokens[i]))]

\* The scripts of the capability line: token.split(":", 1)[1] of every
\* token that starts with otlayout:, then sorted(set(scripts))
FcScripts(capability) ==
    LET found == FcScriptsUnsorted(capability)
    IN  SortedStrSet({found[i] : i \in 1..Len(found)})

\* The charset blob: the first charset: line and the lines after it up to
\* the first blank one.
FcCharset(raw, include_charset) ==
    LET hits == {i \in 1..Len(raw) : StartsWith(raw[i], "charset:")}
    IN  IF ~include_charset \/ hits = {} THEN PyNone
        ELSE LET idx   == CHOOSE h \in hits : \A g \in hits : h <= g
                 blank == {j \in (idx + 1)..Len(raw) : Strip(raw[j]) = ""}
                 stop  == IF blank = {} THEN Len(raw) + 1
                          ELSE CHOOSE h \in blank : \A g \in blank : h <= g
             IN  PyStr(JoinLines(SubSeq(raw, idx, stop - 1), "\n"))

fc_query_extract(raw, include_charset) ==
    [languages  |-> FcLanguages(FindLine(raw, "lang:")),
     scripts    |-> FcScripts(FindLine(raw, "capability:")),
     charset    |-> FcCharset(raw, include_charset),
     decorative |-> FcFlag(FindLine(raw, "decorative:")),
     color      |-> FcFlag(FindLine(raw, "color:")),
     variable   |-> FcFlag(FindLine(raw, "variable:"))]

(***************************************************************************)
(* SpecFcQuery: fc_query_extract applied to outputs of at most MaxLines    *)
(* lines.  fcOutput describes each printed line by its prefix, its items,  *)
(* the separator between them and the quote around them; the text handed   *)
(* to the parser is rendered from that description.                        *)
(***************************************************************************)
MaxLines == 3

FcLine(prefix, items, sep, quote) ==
    [prefix |-> prefix, items |-> items, sep |-> sep, quote |-> quote]

\* The text of a printed line
RenderLine(l) ==
    l.prefix \o " " \o l.quote \o JoinLines(l.items, l.sep) \o l.quote

FcLines ==
    {FcLine("lang:", its, "|", "") :
        its \in {<<"en", "it">>, <<" it ", " ", "en">>, <<>>, <<"fr">>}}
    \cup {FcLine("capability:", its, " ", "\"") :
        its \in {<<"otlayout:latn", "otlayout:grek", "otlayout:DFLT">>,
                 <<"otlayout:latn", "ttable:Silf", "otlayout:latn">>,
                 <<"ttable:Silf">>}}
    \cup {FcLine(name, <<payload>>, "", "") :
        name \in {"decorative:", "color:", "variable:"},
        payload \in {"true", "false"}}
    \cup {FcLine("decorative:", <<"True">>, "", ""),
          FcLine("color:", <<>>, "", ""),
          FcLine("family:", <<"Alpha">>, "", "\""),
          FcLine("charset:", <<"0020-007e">>, "", ""),
          FcLine("", <<>>, "", "")}

FcOutputs == UNION {[1..n -> FcLines] : n \in 0..MaxLines}

\* The lines of proc.stdout
RawLines(out) == [i \in 1..Len(out) |-> RenderLine(out[i])]

FcInit ==
    /\ fcOutput \in FcOutputs
    /\ fcResult = EmptyDict
    /\ InferIdle /\ KeyIdle /\ FaceIdle /\ ParseIdle /\ CacheIdle /\ LangIdle
    /\ ValidateIdle /\ ContainerIdle /\ DescIdle /\ DumpIdle /\ PipeIdle /\ CoverIdle /\ RaceIdle /\ LoadIdle

FcQueryExtract(include_charset) ==
    /\ fcResult = EmptyDict
    /\ fcResult' = fc_query_extract(RawLines(fcOutput), include_charset)
    /\ UNCHANGED <<fcOutput, inferVars, keyVars, faceVars, parseVars,
                   cacheVars, langVars, validateVars, containerVars,
                   descVars, dumpVars,
                   pipeVars,
                   coverVars,
                   raceVars,
                   loadVars>>

FcNext == \E include_charset \in BOOLEAN : FcQueryExtract(include_charset)

SpecFcQuery == FcInit /\ [][FcNext]_vars

\* The items of the first printed line with the prefix; <<>> without one
FirstItems(prefix) ==
    LET hits == {i \in 1..Len(fcOutput) : fcOutput[i].prefix = prefix}
    IN  IF hits = {} THEN <<>>
        ELSE fcOutput[CHOOSE h \in hits : \A g \in hits : h <= g].items

\* The tags fc-query can print, in sorted order
FcTagOrder == <<"DFLT", "grek", "latn">>

\* The spellings of true fc-query output may carry
TrueSpellings == {"true", "True"}

\* What fc_query_extract returned, field by field, when the payloads in
\* spellings count as true: languages are the non-empty trimmed items of
\* the first lang: line in order; scripts are the tags of the otlayout:
\* tokens of the first capability: line, sorted and without duplicates, and
\* empty without such a line; each flag is true exactly when the first line
\* with its prefix carries one of the spellings, and false without the
\* line; empty output gives two empty lists and three false flags.
FieldsParsed(spellings) ==
    fcResult # EmptyDict =>
        /\ fcResult.languages
             = SelectSeq([i \in 1..Len(FirstItems("lang:")) |->
                             Strip(FirstItems("lang:")[i])],
                         LAMBDA x : x # "")
        /\ fcResult.scripts
             = SelectSeq(FcTagOrder,
                         LAMBDA tag : \E i \in 1..Len(FirstItems("capability:")) :
                             FirstItems("capability:")[i] = "otlayout:" \o tag)
        /\ \A name \in {"decorative", "color", "variable"} :
              fcResult[name]
                <=> \E i \in 1..Len(FirstItems(name \o ":")) :
                        FirstItems(name \o ":")[i] \in spellings
        /\ fcOutput = <<>> =>
              /\ fcResult.languages = <<>> /\ fcResult.scripts = <<>>
              /\ ~fcResult.decorative /\ ~fcResult.color /\ ~fcResult.variable

\* C23 as stated: the fields are parsed as described, a flag being true
\* exactly when the payload of its first line is true.
C23_ExactPayload == FieldsParsed({"true"})

\* C23 amended: the fields are parsed as described, a flag being true
\* exactly when the payload of its first line is true in any letter case.
C23_ParsedFields == FieldsParsed(TrueSpellings)

C23_Witness ==
    /\ fcResult # EmptyDict
    /\ Len(fcOutput) = 3
    /\ fcOutput[1].prefix = "capability:"
    /\ fcOutput[2].prefix = "lang:"
    /\ fcOutput[3] = FcLine("decorative:", <<"True">>, "", "")
    /\ fcResult.scripts = <<"DFLT", "grek", "latn">>
    /\ fcResult.languages = <<"it", "en">>
    /\ fcResult.decorative /\ ~fcResult.color

(***************************************************************************)
(* The pipeline: a face goes through _fonttools_extract_from_tt, the block *)
(* through build_font_descriptor, and the inventory holding the descriptor *)
(* through parse_inventory.                                                *)
(***************************************************************************)

\* Whether sum(blocks.values()) can add the values up.  The block mappings
\* of the pipeline hold integer counts under block names; the one value
\* that is a str is the message under the key error.
SummableValues(blocks) == "error" \notin DOMAIN blocks

\* infer_scripts with the exception of sum(blocks.values())
InferScriptsOrRaise(cov, lvl) ==
    IF DOMAIN CoverageBlocks(cov) # {} /\ ~SummableValues(CoverageBlocks(cov))
    THEN Raise("TypeError: unsupported operand type(s) for +: 'int' and 'str'")
    ELSE Return(infer_scripts(cov, lvl))

\* parse_inventory with the exceptions of infer_scripts passed on
ParseInventoryOrRaise(d, lvl) ==
    LET fonts == Get(d, "fonts", <<>>)
        failing == {i \in 1..Len(fonts) :
                       InferScriptsOrRaise(FontCoverage(fonts[i]), lvl).raised}
    IN  IF failing # {}
        THEN InferScriptsOrRaise(
                 FontCoverage(fonts[CHOOSE i \in failing :
                                       \A j \in failing : i <= j]), lvl)
        ELSE Return(parse_inventory(d, lvl))

(***************************************************************************)
(* SpecPipeline: one face of the pool of SpecFace taken through the three  *)
(* stages.                                                                 *)
(***************************************************************************)
PipePath == "/w/a.ttf"

PipeFile ==
    [st |-> [st_mtime_ns |-> 1, st_size |-> 3],
     content |-> [head |-> "tt", faces |-> <<>>, good |-> TRUE],
     access |-> "ok"]

PipeInit ==
    /\ tt \in Faces
    /\ ttArgs = [container |-> "TTF", ttc_index |-> PyNone]
    /\ block = EmptyDict
    /\ pipeDesc = EmptyDict
    /\ pipeParsed = EmptyDict
    /\ InferIdle /\ KeyIdle /\ ParseIdle /\ CacheIdle /\ LangIdle
    /\ ValidateIdle /\ ContainerIdle /\ DescIdle /\ DumpIdle /\ FcIdle /\ CoverIdle /\ RaceIdle /\ LoadIdle

\* desc = build_font_descriptor(font_path, platform_name, face, fc_data)
PipeBuild(fcq) ==
    /\ block # EmptyDict
    /\ pipeDesc = EmptyDict
    /\ pipeDesc' = build_font_descriptor(PipePath, PipeFile, "linux", block,
                                         FcQuery(fcq))
    /\ UNCHANGED <<pipeParsed, inferVars, keyVars, faceVars, parseVars,
                   cacheVars, langVars, validateVars, containerVars,
                   descVars, dumpVars, fcVars,
                   coverVars,
                   raceVars,
                   loadVars>>

\* parse_inventory(data, level) on the inventory main wrote
PipeParse(lvl) ==
    /\ pipeDesc # EmptyDict
    /\ ~pipeDesc.raised
    /\ pipeParsed = EmptyDict
    /\ pipeParsed' = ParseInventoryOrRaise(
                         [metadata |-> [schema_version |-> "1.0"],
                          fonts |-> <<pipeDesc.val>>], lvl)
    /\ UNCHANGED <<pipeDesc, inferVars, keyVars, faceVars, parseVars,
                   cacheVars, langVars, validateVars, containerVars,
                   descVars, dumpVars, fcVars,
                   coverVars,
                   raceVars,
                   loadVars>>

PipeNext ==
    \/ ExtractFromTT
    \/ \E fcq \in {"ok", "none"} : PipeBuild(fcq)
    \/ \E lvl \in Levels : PipeParse(lvl)

SpecPipeline == PipeInit /\ [][PipeNext]_vars

\* C24: for every block the extractor returns, blocks with error markers
\* included, the descriptor's coverage.unicode_blocks maps block names to
\* integer counts, and parse_inventory on the inventory of that descriptor
\* returns, with scripts [unknown] when the coverage has neither blocks nor
\* a highest code point.
C24_PipelineTotal ==
    /\ pipeDesc # EmptyDict =>
          /\ ~pipeDesc.raised
          /\ "error" \notin DOMAIN pipeDesc.val.coverage.unicode_blocks
    /\ pipeParsed # EmptyDict =>
          /\ ~pipeParsed.raised
          /\ (/\ pipeDesc.val.coverage.unicode_blocks = EmptyDict
              /\ pipeDesc.val.coverage.unicode.max = PyNone)
             => pipeParsed.val.fonts[1].inference.scripts = <<"unknown">>

(***************************************************************************)
(* SpecCoverage: the two code point collections of the extractor on one    *)
(* cmap table of at most MaxSubtables subtables, with the guard rail at a  *)
(* limit of at most MaxLimit code points.                                  *)
(***************************************************************************)
MaxSubtables == 2

MaxLimit == 3

\* The code point sets a subtable maps
SubtableCmaps == {{}, {65}, {65, 66}, {66, 67, 68}, 65..69, {70, 71}}

Subtables == [isUnicode : BOOLEAN, cmap : SubtableCmaps]

CoverFaces ==
    {Face({"glyf"}, Absent, Absent, [has |-> TRUE, tbl |-> subs], Absent,
          Absent, {}) :
        subs \in UNION {[1..n -> Subtables] : n \in 0..MaxSubtables}}

CoverInit ==
    /\ covArgs \in [face : CoverFaces, limit : 1..MaxLimit]
    /\ covResult = EmptyDict
    /\ InferIdle /\ KeyIdle /\ FaceIdle /\ ParseIdle /\ CacheIdle /\ LangIdle
    /\ ValidateIdle /\ ContainerIdle /\ DescIdle /\ DumpIdle /\ FcIdle /\ PipeIdle /\ RaceIdle /\ LoadIdle

\* data["unicode"] = extract_unicode_coverage(tt, limit)
CoverageSummary ==
    /\ "unicode" \notin DOMAIN covResult
    /\ covResult' = Put(covResult, "unicode",
                        extract_unicode_coverage(covArgs.face, covArgs.limit).val)
    /\ UNCHANGED <<covArgs, inferVars, keyVars, faceVars, parseVars, cacheVars,
                   langVars, validateVars, containerVars, descVars, dumpVars,
                   fcVars, pipeVars,
                   raceVars,
                   loadVars>>

\* The code point set of the unicode_blocks step
CoverageBlocksSet ==
    /\ "codepoints" \notin DOMAIN covResult
    /\ covResult' = Put(covResult, "codepoints",
                        BlocksLoop(covArgs.face.cmap, 1, {}, covArgs.limit))
    /\ UNCHANGED <<covArgs, inferVars, keyVars, faceVars, parseVars, cacheVars,
                   langVars, validateVars, containerVars, descVars, dumpVars,
                   fcVars, pipeVars,
                   raceVars,
                   loadVars>>

CoverNext == CoverageSummary \/ CoverageBlocksSet

SpecCoverage == CoverInit /\ [][CoverNext]_vars

\* C25: the count extract_unicode_coverage reports never exceeds its limit,
\* and the code point set behind unicode_blocks never holds more code
\* points than its guard rail.
C25_CappedCoverage ==
    /\ "unicode" \in DOMAIN covResult =>
          covResult.unicode.count <= covArgs.limit
    /\ "codepoints" \in DOMAIN covResult =>
          Cardinality(covResult.codepoints) <= covArgs.limit

(***************************************************************************)
(* The fallback path of infer_scripts (SpecInfer)                          *)
(***************************************************************************)
\* The ranges of the fallback path: first and last code point and script
MaxRanges ==
    {<<880, 1023, "greek">>, <<1024, 1279, "cyrillic">>,
     <<1424, 1535, "hebrew">>, <<1536, 1791, "arabic">>,
     <<2304, 2431, "devanagari">>}

\* The drawn coverage has no unicode_blocks or an empty one.
NoBlocks ==
    \/ "unicode_blocks" \notin DOMAIN coverage
    \/ coverage.unicode_blocks \in {EmptyDict, PyNone}

\* The highest code point of the drawn coverage, None when it has none
DrawnMax ==
    IF "unicode" \in DOMAIN coverage /\ "max" \in DOMAIN coverage.unicode
    THEN coverage.unicode.max ELSE PyNone

\* C26: without unicode_blocks, or with an empty one, the result is decided
\* by coverage.unicode.max alone: [latin] up to 0x024F, the script of the
\* range the value lies in, [han] from 0x4E00 on, and [unknown] for any
\* other value and for a value that is no integer, the same at every level;
\* with a non-empty unicode_blocks the result is the one the blocks give
\* without unicode.max, even when no block is significant.
C26_FallbackPath ==
    \A lvl \in DOMAIN inferred :
        /\ NoBlocks =>
              /\ DrawnMax.t = "int" =>
                    /\ DrawnMax.v <= 591 => inferred[lvl] = <<"latin">>
                    /\ \A r \in MaxRanges :
                          r[1] <= DrawnMax.v /\ DrawnMax.v <= r[2]
                              => inferred[lvl] = <<r[3]>>
                    /\ DrawnMax.v >= 19968 => inferred[lvl] = <<"han">>
                    /\ (/\ DrawnMax.v > 591 /\ DrawnMax.v < 19968
                        /\ \A r \in MaxRanges :
                              DrawnMax.v < r[1] \/ DrawnMax.v > r[2])
                          => inferred[lvl] = <<"unknown">>
              /\ DrawnMax.t # "int" => inferred[lvl] = <<"unknown">>
              /\ \A other \in DOMAIN inferred : inferred[other] = inferred[lvl]
        /\ ~NoBlocks =>
              inferred[lvl] =
                  infer_scripts([unicode_blocks |-> coverage.unicode_blocks], lvl)

C26_Witness ==
    /\ DOMAIN inferred = Levels
    /\ NoBlocks
    /\ DrawnMax = PyInt(1023)
    /\ \A lvl \in Levels : inferred[lvl] = <<"greek">>

(***************************************************************************)
(* Two dump processes on one cache directory.  Both run the single-face   *)
(* branch of fonttools_extract_all on the same unchanged file, so they     *)
(* work on the same cache file.  write_text opens the file truncating it   *)
(* and writes the text in up to MaxChunks pieces at its own offset;        *)
(* read_text reads piece by piece until the end of the file.  A cell of    *)
(* the file is "data" (a piece of the text) or "hole" (bytes the file      *)
(* system filled in when a write landed beyond the end of the file).       *)
(***************************************************************************)
MaxChunks == 2

Procs == {1, 2}

RacePath == "/w/a.ttf"

\* The text of a complete cache file
Complete == [i \in 1..MaxChunks |-> "data"]

\* out of the single-face branch: what extraction makes of the file
RaceBlock(f) ==
    IF OpenTTFont(f).raised
    THEN [ok |-> FALSE, container |-> detect_font_container(RacePath, f),
          ttc_index |-> PyNone,
          error |-> "Cannot open font: " \o OpenTTFont(f).msg]
    ELSE FonttoolsExtractFromTT(detect_font_container(RacePath, f),
                                OpenTTFont(f).val, PyNone)

\* cache_file.read_text(): the text json.dumps wrote when every piece is
\* there; fewer pieces, or pieces after a hole, are no JSON document
\* (the text of an object ends with its closing brace).
ReadText(cells, f) == IF cells = Complete THEN Dumps(RaceBlock(f)) ELSE Garbage

\* A reader that takes whatever it read for the block
CachedBlockUnchecked(cells, f) ==
    IF cells = Complete THEN Loads(ReadText(cells, f)) ELSE Return(EmptyDict)

\* json.loads(cache_file.read_text(encoding="utf-8"))
CachedBlock(cells, f) == Loads(ReadText(cells, f))

\* The cells of the file after a write of one piece at offset pos
WriteAt(cells, pos) ==
    [i \in 1..(IF Len(cells) > pos THEN Len(cells) ELSE pos) |->
        IF i = pos THEN "data" ELSE IF i <= Len(cells) THEN cells[i] ELSE "hole"]

RaceFiles ==
    [st : {[st_mtime_ns |-> 1, st_size |-> 3]},
     content : {[head |-> "OTTO", faces |-> <<CacheFace(v)>>, good |-> TRUE] :
                   v \in {0, 10}}
               \cup {[head |-> "junk", faces |-> <<>>, good |-> FALSE]},
     access : {"ok"}]

\* hit records that the block returned was read from the cache.
Starting ==
    [pc |-> "check", pos |-> 0, buf |-> <<>>, out |-> EmptyDict, hit |-> FALSE]

RaceInit ==
    /\ raceArgs \in [file : RaceFiles, use_cache : [Procs -> BOOLEAN]]
    /\ raceEntry \in {[exists |-> FALSE, cells |-> <<>>],
                      [exists |-> TRUE, cells |-> Complete]}
    /\ raceProc = [p \in Procs |-> Starting]
    /\ InferIdle /\ KeyIdle /\ FaceIdle /\ ParseIdle /\ CacheIdle /\ LangIdle
    /\ ValidateIdle /\ ContainerIdle /\ DescIdle /\ DumpIdle /\ FcIdle /\ PipeIdle /\ CoverIdle /\ LoadIdle

Others == <<inferVars, keyVars, faceVars, parseVars, cacheVars, langVars,
            validateVars, containerVars, descVars, dumpVars, fcVars, pipeVars,
            coverVars>>

\* if use_cache and cache_file.exists():
RaceCheck(p) ==
    /\ raceProc[p].pc = "check"
    /\ raceProc' = [raceProc EXCEPT ![p].pc =
                       IF raceArgs.use_cache[p] /\ raceEntry.exists
                       THEN "read" ELSE "extract",
                                    ![p].pos = 1]
    /\ UNCHANGED <<raceArgs, raceEntry, Others,
                   loadVars>>

\* One read of cache_file.read_text(): the next piece, or the end of the
\* file, at which json.loads decides between a hit and a miss.
RaceRead(p) ==
    /\ raceProc[p].pc = "read"
    /\ IF raceProc[p].pos <= Len(raceEntry.cells)
       THEN raceProc' = [raceProc EXCEPT
                ![p].buf = Append(@, raceEntry.cells[raceProc[p].pos]),
                ![p].pos = @ + 1]
       ELSE IF CachedBlock(raceProc[p].buf, raceArgs.file).raised
       THEN raceProc' = [raceProc EXCEPT ![p].pc = "extract"]
       ELSE raceProc' = [raceProc EXCEPT
                ![p].pc = "done", ![p].hit = TRUE,
                ![p].out = CachedBlock(raceProc[p].buf, raceArgs.file).val]
    /\ UNCHANGED <<raceArgs, raceEntry, Others,
                   loadVars>>

\* out = _fonttools_extract_from_tt(...), or the error block
RaceExtract(p) ==
    /\ raceProc[p].pc = "extract"
    /\ raceProc' = [raceProc EXCEPT ![p].pc = "open",
                                    ![p].out = RaceBlock(raceArgs.file)]
    /\ UNCHANGED <<raceArgs, raceEntry, Others,
                   loadVars>>

\* cache_file.write_text(...): the file is opened for writing, which
\* creates or empties it
RaceOpen(p) ==
    /\ raceProc[p].pc = "open"
    /\ raceEntry' = [exists |-> TRUE, cells |-> <<>>]
    /\ raceProc' = [raceProc EXCEPT ![p].pc = "write", ![p].pos = 1]
    /\ UNCHANGED <<raceArgs, Others,
                   loadVars>>

\* One write of write_text; after the last one the call returns [out]
RaceWrite(p) ==
    /\ raceProc[p].pc = "write"
    /\ raceEntry' = [raceEntry EXCEPT !.cells = WriteAt(@, raceProc[p].pos)]
    /\ raceProc' = [raceProc EXCEPT
            ![p].pc = IF raceProc[p].pos = MaxChunks THEN "done" ELSE "write",
            ![p].pos = @ + 1]
    /\ UNCHANGED <<raceArgs, Others,
                   loadVars>>

RaceNext ==
    \E p \in Procs :
        \/ RaceCheck(p)
        \/ RaceRead(p)
        \/ RaceExtract(p)
        \/ RaceOpen(p)
        \/ RaceWrite(p)

SpecRace == RaceInit /\ [][RaceNext]_vars

\* C27: under every interleaving of the exists checks, reads and writes of
\* two processes extracting the same unchanged face, a process that has
\* finished returns the block of the pure extraction; once both have
\* finished the cache file holds that block whole; and a process that read
\* a missing, empty or partly written file went on to extract.
C27_ConcurrentDumps ==
    /\ \A p \in Procs :
          raceProc[p].pc = "done" => raceProc[p].out = RaceBlock(raceArgs.file)
    /\ (\A p \in Procs : raceProc[p].pc = "done") =>
          /\ raceEntry.exists
          /\ raceEntry.cells = Complete
          /\ Loads(Dumps(RaceBlock(raceArgs.file))).val = RaceBlock(raceArgs.file)
    /\ \A p \in Procs : raceProc[p].hit => raceProc[p].buf = Complete

\* Both finished, one of them after reading the file while the other was
\* writing it: it read the first piece only and extracted again.
C27_Witness ==
    /\ \A p \in Procs : raceProc[p].pc = "done"
    /\ \E p \in Procs : raceProc[p].buf = <<"data">> /\ ~raceProc[p].hit
    /\ raceEntry.cells = Complete

(***************************************************************************)
(* The block-histogram path of infer_scripts (SpecInfer)                   *)
(***************************************************************************)
\* A CJK Unified Ideographs block is significant at the level.
CJKSignificant(lvl) ==
    \E b \in SignificantBlocks(lvl) : StartsWith(b, "CJK Unified Ideographs")

\* The scripts of the significant blocks that map to a script
SignificantScripts(lvl) == {BlockScript(b) : b \in SignificantBlocks(lvl)} \ {""}

\* result lists the members of S once each in ascending order.
IsSortedSetOf(result, S) ==
    /\ ToSet(result) = S
    /\ \A i \in 1..(Len(result) - 1) : StrLess(result[i], result[i + 1])

\* On the block-histogram path a significant CJK block makes the result one
\* of [japanese], [korean], [han] and leaves every other script out.
CJKAlone(lvl) ==
    CJKSignificant(lvl) =>
        /\ Len(inferred[lvl]) = 1
        /\ inferred[lvl][1] \in {"japanese", "korean", "han"}
        /\ \A sc \in SignificantScripts(lvl) \ {"japanese", "korean", "han"} :
              sc \notin ToSet(inferred[lvl])

C29_OverwriteIdempotent ==
    runs # <<>> =>
        /\ data = parse_inventory(asRead, runs[Len(runs)])
        /\ Len(data.fonts) = Len(asRead.fonts)
        /\ \A i \in 1..Len(asRead.fonts) :
              /\ data.fonts[i].identity = asRead.fonts[i].identity
              /\ data.fonts[i].inference.level = runs[Len(runs)]
        /\ data.metadata.inference_level = runs[Len(runs)]
        /\ ("metadata" \in DOMAIN asRead
              /\ "schema_version" \in DOMAIN asRead.metadata)
            => data.metadata.schema_version = asRead.metadata.schema_version

\* Two runs at different levels that infer different scripts for a font of
\* an inventory whose schema_version is not the default
C29_Witness ==
    /\ runs = <<"aggressive", "medium">>
    /\ "metadata" \in DOMAIN asRead
    /\ "schema_version" \in DOMAIN asRead.metadata
    /\ asRead.metadata.schema_version = "2.0"
    /\ Len(data.fonts) = 2
    /\ data.fonts[1].identity.family = "G"
    /\ data.fonts[1].inference.scripts = <<"unknown">>
    /\ data.fonts[1].inference.level = "medium"

(***************************************************************************)
(* SpecFailure: the calls and file changes of Spec, starting from a        *)
(* single-face file that cannot be opened: it is unreadable, or it is no   *)
(* font.                                                                   *)
(***************************************************************************)
FailureInit ==
    /\ path = "/w/a.ttf"
    /\ file \in [st : Stats,
                 content : {c \in Contents : c.head # "ttcf"},
                 access : {"unreadable"}]
    /\ cache = EmptyDict
    /\ cacheStat = EmptyDict
    /\ call = EmptyDict
    /\ fonttools = TRUE
    /\ steps = 0
    /\ InferIdle /\ KeyIdle /\ FaceIdle /\ ParseIdle /\ LangIdle
    /\ ValidateIdle /\ ContainerIdle /\ DescIdle /\ DumpIdle /\ FcIdle
    /\ PipeIdle /\ CoverIdle /\ RaceIdle /\ LoadIdle

SpecFailure == FailureInit /\ [][Next]_vars

\* The file is there and is taken for a single-face file.
SingleFace == file.access # "missing" /\ detect_font_container(path, file) # "TTC"

\* The cache key of the file as it is
FileKey == FontCacheKey(path, file.st, PyNone)

\* The cache holds an error block under the key of the file.
ErrorCached ==
    /\ FileKey \in DOMAIN cache
    /\ ~Loads(cache[FileKey]).raised
    /\ ~Loads(cache[FileKey]).val.ok

\* C30: a call on a single-face file that does not open and is not served
\* from the cache writes the error block (ok false, error Cannot open
\* font: ...) under the file's cache key; and a call with use_cache on a
\* file under whose key an error block is cached returns that block from
\* the cache, extracts nothing and leaves the cache as it is, whether or not
\* the file opens by now.
C30_FailuresCached ==
    [][\A use_cache \in BOOLEAN :
          (ExtractAllCall(use_cache) /\ SingleFace) =>
              /\ (OpenTTFont(file).raised
                    /\ ~(use_cache /\ FileKey \in DOMAIN cache)) =>
                     /\ ~call'.result[1].ok
                     /\ StartsWith(call'.result[1].error, "Cannot open font: ")
                     /\ Loads(cache'[FileKey]).val = call'.result[1]
              /\ (use_cache /\ ErrorCached) =>
                     /\ call'.result = <<Loads(cache[FileKey]).val>>
                     /\ call'.hits = {1}
                     /\ call'.extracted = <<>>
                     /\ cache' = cache
      ]_vars

\* The file was unreadable when it was first extracted and opens by now;
\* the call with use_cache still returned the cached error block.
C30_Witness ==
    /\ Called
    /\ call.use_cache
    /\ file.access = "ok"
    /\ ~OpenTTFont(file).raised
    /\ call.file = file
    /\ call.hits = {1}
    /\ ~call.result[1].ok
    /\ call.extracted = <<>>

====
